---- MODULE Spec2Model ----
(***************************************************************************)
(* AR Dashboard: the ProjectionController's aggregations and drill-downs   *)
(* over the cleaned accounts-receivable table, and ARDataModel's cleaning. *)
(*                                                                         *)
(* Text is a sequence of one-character strings, so that lower(), strip()   *)
(* and substring search are computed and not assumed.  Money is an integer *)
(* number of USD; a "% of Total" is an integer number of hundredths of a   *)
(* percent (the code rounds to 2 decimals).  A missing cell (None / NaN /  *)
(* pd.NA) is the value NA.                                                 *)
(*                                                                         *)
(* df is the table a method is called on and df_columns its columns, op    *)
(* the last method called, args its arguments and result what it returned. *)
(*                                                                         *)
(* The rest of the application's state: ARDataModel's table and file       *)
(* timestamp, the controller's cached table, the access store, the session *)
(* store, one browser's Streamlit session state and cookie, and the clock. *)
(* An attribute that may be None is a sequence of at most one value.       *)
(***************************************************************************)
EXTENDS Integers, Sequences, FiniteSets, TLC

VARIABLES df, df_columns, op, args, result,
          model_df,             \* ARDataModel._df
          model_last_modified,  \* ARDataModel._last_modified
          controller_df,        \* ProjectionController._df
          calls,                \* the collaborators' calls made by the last method
          users,                \* AccessModel._data["users"]
          store,                \* the session store file
          session_state,        \* st.session_state of the browser's session
          cookie,               \* the browser's ar_sid cookie
          now,                  \* time.time(), in days
          issued                \* the number of session ids issued

appVars ==
    <<model_df, model_last_modified, controller_df, calls, users, store,
      session_state, cookie, now, issued>>

vars == <<df, df_columns, op, args, result, appVars>>

\* st.session_state without a logged-in user
NoSession == [user |-> <<>>, role |-> <<>>, session_id |-> <<>>]

\* the application's state before anything is loaded or anyone logs in
Idle ==
    /\ model_df = <<>>
    /\ model_last_modified = <<>>
    /\ controller_df = <<>>
    /\ calls = <<>>
    /\ users = <<>>
    /\ store = <<>>
    /\ session_state = NoSession
    /\ cookie = <<>>
    /\ now = 0
    /\ issued = 0

(***************************************************************************)
(* Bounds.                                                                 *)
(***************************************************************************)
MaxRows == 2

MaxPctRows == 3

MaxCleanRows == 3

Amounts == {-100, 100, 200}

(***************************************************************************)
(* Text primitives (Python str / pandas .str).                             *)
(***************************************************************************)
UpperChars == <<"A", "B", "C", "D", "E", "F", "G", "H", "I", "J", "K", "L", "M",
                "N", "O", "P", "Q", "R", "S", "T", "U", "V", "W", "X", "Y", "Z">>

LowerChars == <<"a", "b", "c", "d", "e", "f", "g", "h", "i", "j", "k", "l", "m",
                "n", "o", "p", "q", "r", "s", "t", "u", "v", "w", "x", "y", "z">>

DigitChars == <<"0", "1", "2", "3", "4", "5", "6", "7", "8", "9">>

InSeq(c, s) == \E i \in 1..Len(s) : s[i] = c

IndexOf(c, s) == CHOOSE i \in 1..Len(s) : s[i] = c

\* the code points of the characters (the order Python compares strings by)
CodePoint ==
    [c \in {UpperChars[i] : i \in 1..26} \cup {LowerChars[i] : i \in 1..26}
           \cup {DigitChars[i] : i \in 1..10} \cup {" ", "-"} |->
        IF InSeq(c, UpperChars) THEN 64 + IndexOf(c, UpperChars)
        ELSE IF InSeq(c, LowerChars) THEN 96 + IndexOf(c, LowerChars)
        ELSE IF InSeq(c, DigitChars) THEN 47 + IndexOf(c, DigitChars)
        ELSE IF c = " " THEN 32
        ELSE 45]

Ord(c) == CodePoint[c]

LowerOf == [c \in {UpperChars[i] : i \in 1..26} |-> LowerChars[IndexOf(c, UpperChars)]]

LowerChar(c) == IF c \in DOMAIN LowerOf THEN LowerOf[c] ELSE c

\* str.lower()
RECURSIVE lower(_)
lower(s) == IF s = <<>> THEN <<>> ELSE <<LowerChar(Head(s))>> \o lower(Tail(s))

RECURSIVE lstrip(_)
lstrip(s) == IF s # <<>> /\ Head(s) = " " THEN lstrip(Tail(s)) ELSE s

RECURSIVE rstrip(_)
rstrip(s) == IF s # <<>> /\ s[Len(s)] = " " THEN rstrip(SubSeq(s, 1, Len(s) - 1)) ELSE s

\* str.strip()
strip(s) == rstrip(lstrip(s))

\* Python's  sub in s
Contains(sub, s) ==
    \E i \in 0..(Len(s) - Len(sub)) : SubSeq(s, i + 1, i + Len(sub)) = sub

\* Python's  a < b  on str: lexicographic by code point
RECURSIVE StrLess(_, _)
StrLess(a, b) ==
    IF b = <<>> THEN FALSE
    ELSE IF a = <<>> THEN TRUE
    ELSE IF Head(a) = Head(b) THEN StrLess(Tail(a), Tail(b))
    ELSE Ord(Head(a)) < Ord(Head(b))

\* a missing cell
NA == <<"<NA>">>

isna(x) == x = NA

(***************************************************************************)
(* Text values of the input tables.                                        *)
(***************************************************************************)
S_Blank == <<>>
S_Feb1stWeek == <<"F", "e", "b", " ", "1", "s", "t", " ", "w", "e", "e", "k">>
S_FebCurrentWeek == <<"F", "e", "b", " ", "C", "u", "r", "r", "e", "n", "t", " ", "w", "e", "e", "k">>
S_Feb2ndWeek == <<"F", "e", "b", " ", "2", "n", "d", " ", "w", "e", "e", "k">>
S_Feb3rdWeek == <<"F", "e", "b", " ", "3", "r", "d", " ", "w", "e", "e", "k">>
S_Feb4thWeek == <<"F", "e", "b", " ", "4", "t", "h", " ", "w", "e", "e", "k">>
S_FebLastWeek == <<"F", "e", "b", " ", "L", "a", "s", "t", " ", "w", "e", "e", "k">>
S_Mar1stWeek == <<"M", "a", "r", " ", "1", "s", "t", " ", "w", "e", "e", "k">>
S_NextMonth == <<"N", "e", "x", "t", " ", "M", "o", "n", "t", "h">>
S_Week1 == <<"W", "e", "e", "k", "1">>
S_DisputeLegal == <<"D", "i", "s", "p", "u", "t", "e", " ", "-", " ", "L", "e", "g", "a", "l">>
S_InDISPUTE == <<"I", "n", " ", "D", "I", "S", "P", "U", "T", "E">>
S_MarJan2nd == <<"M", "a", "r", " ", "J", "a", "n", " ", "2", "n", "d">>
S_DecNextMonth == <<"D", "e", "c", " ", "n", "e", "x", "t", " ", "m", "o", "n", "t", "h">>
S_CurrentWeek == <<"C", "u", "r", "r", "e", "n", "t", " ", "w", "e", "e", "k">>
S_Last1st == <<"L", "a", "s", "t", " ", "1", "s", "t">>
S_FEB1STWEEK == <<"F", "E", "B", " ", "1", "S", "T", " ", "W", "E", "E", "K">>
S_Spaces == <<" ", " ">>
S_CurrentDue == <<"C", "u", "r", "r", "e", "n", "t", " ", "D", "u", "e">>
S_Overdue == <<"O", "v", "e", "r", "d", "u", "e">>
S_OverdueSp == <<"O", "v", "e", "r", "d", "u", "e", " ">>
S_OVERDUE == <<"O", "V", "E", "R", "D", "U", "E">>
S_overdue == <<"o", "v", "e", "r", "d", "u", "e">>
S_Internal == <<"I", "n", "t", "e", "r", "n", "a", "l">>
S_SpINTERNAL == <<" ", "I", "N", "T", "E", "R", "N", "A", "L">>
S_Legal == <<"L", "e", "g", "a", "l">>
S_INV == <<"I", "N", "V">>
S_A == <<"A">>
S_B == <<"B">>
S_X == <<"X">>
S_Y == <<"Y">>
S_E1 == <<"E", "1">>
S_E2 == <<"E", "2">>
S_BU1 == <<"B", "U", "1">>

(***************************************************************************)
(* Tables: a table is a sequence of rows, a row a record of cells.         *)
(***************************************************************************)
DefaultRow ==
    [Projection |-> S_Feb1stWeek, Remarks |-> S_CurrentDue, CustomerName |-> S_A,
     NewOrgName |-> S_BU1, Allocation |-> S_X, Entities |-> S_E1,
     Reference |-> S_INV, ARComments |-> S_Blank, ARStatus |-> S_Blank,
     Total |-> 100]

\* the columns of the table, by the field that holds them in a row
ALL_COLUMNS == DOMAIN DefaultRow

TablesUpTo(rows, max) == UNION {[1..n -> rows] : n \in 0..max}

TablesOf(rows) == TablesUpTo(rows, MaxRows)

\* what ARDataModel._clean guarantees of the text columns: str, trimmed
IsCleaned(d) ==
    \A i \in 1..Len(d) :
        /\ ~isna(d[i].Projection) /\ strip(d[i].Projection) = d[i].Projection
        /\ ~isna(d[i].Remarks) /\ strip(d[i].Remarks) = d[i].Remarks

RECURSIVE SumTotal(_)
SumTotal(rows) == IF rows = <<>> THEN 0 ELSE Head(rows).Total + SumTotal(Tail(rows))

\* Series.unique(): distinct values in order of first appearance
RECURSIVE unique(_)
unique(s) ==
    IF s = <<>> THEN <<>>
    ELSE LET u == unique(SubSeq(s, 1, Len(s) - 1))
             x == s[Len(s)]
         IN IF InSeq(x, u) THEN u ELSE Append(u, x)

Range(s) == {s[i] : i \in 1..Len(s)}

(***************************************************************************)
(* Dynamic projection categorisation.                                      *)
(***************************************************************************)
DISPUTE_KEYWORD == <<"D", "i", "s", "p", "u", "t", "e">>

_get_all_projections(d) ==
    LET col == [i \in 1..Len(d) |-> d[i].Projection]
        present == SelectSeq(col, LAMBDA x : ~isna(x))
        nonblank == SelectSeq(present, LAMBDA x : strip(x) # <<>>)
    IN unique(nonblank)

\* mutant: the keyword is matched without lowering the label
IsDispute_CaseSensitive(proj) == Contains(lower(DISPUTE_KEYWORD), proj)

IsDispute(proj) == Contains(lower(DISPUTE_KEYWORD), lower(proj))

\* mutant: the else is lost, every label is appended to inflow
_split_inflow_dispute_NoElse(d) ==
    LET all == _get_all_projections(d)
    IN [inflow |-> all, dispute |-> SelectSeq(all, LAMBDA p : IsDispute(p))]

_split_inflow_dispute(d) ==
    LET all == _get_all_projections(d)
    IN [inflow |-> SelectSeq(all, LAMBDA p : ~IsDispute(p)),
        dispute |-> SelectSeq(all, LAMBDA p : IsDispute(p))]

\* the dict literals of _sort_key, in insertion order
MONTH_MAP ==
    <<[token |-> <<"j", "a", "n">>, rank |-> 1],
     [token |-> <<"f", "e", "b">>, rank |-> 2],
     [token |-> <<"m", "a", "r">>, rank |-> 3],
     [token |-> <<"a", "p", "r">>, rank |-> 4],
     [token |-> <<"m", "a", "y">>, rank |-> 5],
     [token |-> <<"j", "u", "n">>, rank |-> 6],
     [token |-> <<"j", "u", "l">>, rank |-> 7],
     [token |-> <<"a", "u", "g">>, rank |-> 8],
     [token |-> <<"s", "e", "p">>, rank |-> 9],
     [token |-> <<"o", "c", "t">>, rank |-> 10],
     [token |-> <<"n", "o", "v">>, rank |-> 11],
     [token |-> <<"d", "e", "c">>, rank |-> 12]>>

WEEK_MAP ==
    <<[token |-> <<"c", "u", "r", "r", "e", "n", "t">>, rank |-> 1],
     [token |-> <<"1", "s", "t">>, rank |-> 2],
     [token |-> <<"2", "n", "d">>, rank |-> 3],
     [token |-> <<"3", "r", "d">>, rank |-> 4],
     [token |-> <<"4", "t", "h">>, rank |-> 5],
     [token |-> <<"l", "a", "s", "t">>, rank |-> 6]>>

NEXT_MONTH == <<"n", "e", "x", "t", " ", "m", "o", "n", "t", "h">>

\* mutant: the break is lost, the last matching token wins
RECURSIVE FirstMatch_NoBreak(_, _, _)
FirstMatch_NoBreak(map, low, default) ==
    IF map = <<>> THEN default
    ELSE LET rest == FirstMatch_NoBreak(Tail(map), low, default)
         IN IF rest # default THEN rest
            ELSE IF Contains(Head(map).token, low) THEN Head(map).rank
            ELSE default

\* for token, rank in MAP.items(): if token in lower: rank; break
RECURSIVE FirstMatch(_, _, _)
FirstMatch(map, low, default) ==
    IF map = <<>> THEN default
    ELSE IF Contains(Head(map).token, low) THEN Head(map).rank
    ELSE FirstMatch(Tail(map), low, default)

_sort_key(projection) ==
    LET low == lower(projection)
        found == FirstMatch(MONTH_MAP, low, 99)
        month_rank == IF Contains(NEXT_MONTH, low) THEN 98 ELSE found
        week_rank == FirstMatch(WEEK_MAP, low, 99)
    IN <<month_rank, week_rank, low>>

\* Python's  k1 < k2  on the key tuples
KeyLess(k1, k2) ==
    \/ k1[1] < k2[1]
    \/ k1[1] = k2[1] /\ k1[2] < k2[2]
    \/ k1[1] = k2[1] /\ k1[2] = k2[2] /\ StrLess(k1[3], k2[3])

\* sorted(items, key=_sort_key): stable, an item goes after the equal keys before it
RECURSIVE InsertByKey(_, _)
InsertByKey(x, s) ==
    IF s = <<>> THEN <<x>>
    ELSE IF KeyLess(_sort_key(x), _sort_key(Head(s))) THEN <<x>> \o s
    ELSE <<Head(s)>> \o InsertByKey(x, Tail(s))

RECURSIVE sorted_by_sort_key(_)
sorted_by_sort_key(items) ==
    IF items = <<>> THEN <<>>
    ELSE InsertByKey(items[Len(items)],
                     sorted_by_sort_key(SubSeq(items, 1, Len(items) - 1)))

\* sorted(items) on str
RECURSIVE InsertStr(_, _)
InsertStr(x, s) ==
    IF s = <<>> THEN <<x>>
    ELSE IF StrLess(x, Head(s)) THEN <<x>> \o s
    ELSE <<Head(s)>> \o InsertStr(x, Tail(s))

RECURSIVE sorted(_)
sorted(items) ==
    IF items = <<>> THEN <<>>
    ELSE InsertStr(items[Len(items)], sorted(SubSeq(items, 1, Len(items) - 1)))

(***************************************************************************)
(* pandas primitives.                                                      *)
(***************************************************************************)
\* the group keys of groupby(col): distinct, missing keys dropped, sorted
GroupKeys(col) == sorted(unique(SelectSeq(col, LAMBDA x : ~isna(x))))

\* ("Reference", "count"): the rows whose Reference is not missing
CountReference(rows) == Len(SelectSeq(rows, LAMBDA r : ~isna(r.Reference)))

\* sort_values: every arrangement of rows[i], i in idxs, with keys[i]
\* non-decreasing (the order of equal keys is not fixed by the sort)
RECURSIVE SortValues(_, _, _)
SortValues(rows, keys, idxs) ==
    IF idxs = {} THEN {<<>>}
    ELSE LET least == {i \in idxs : \A j \in idxs : keys[i] <= keys[j]}
         IN UNION {{<<rows[i]>> \o t : t \in SortValues(rows, keys, idxs \ {i})} :
                   i \in least}

\* round(n / d, 0) for d > 0, ties to even (numpy's round)
RoundHalfEven(n, d) ==
    LET q == n \div d
        r == n - q * d
    IN IF 2 * r < d THEN q
       ELSE IF 2 * r > d THEN q + 1
       ELSE IF q % 2 = 0 THEN q ELSE q + 1

\* mutant: the percentage is cut to 2 decimals, not rounded
PctOfTotal_Truncate(x, grand_total) ==
    IF grand_total > 0 THEN (x * 10000) \div grand_total ELSE 0

\* (x / grand_total * 100).round(2) if grand_total > 0 else 0.0
PctOfTotal(x, grand_total) ==
    IF grand_total > 0 THEN RoundHalfEven(x * 10000, grand_total) ELSE 0

RECURSIVE SumField(_, _)
SumField(rows, f) == IF rows = <<>> THEN 0 ELSE Head(rows)[f] + SumField(Tail(rows), f)

(***************************************************************************)
(* Weekly inflow projections.                                              *)
(***************************************************************************)
\* the 0-based position of v in ordered, len(ordered) when it is not there
\* mutant: fillna(0) in place of fillna(len(ordered))
OrderOf_FillZero(ordered, v) ==
    IF InSeq(v, ordered) THEN IndexOf(v, ordered) - 1 ELSE 0

OrderOf(ordered, v) ==
    IF InSeq(v, ordered) THEN IndexOf(v, ordered) - 1 ELSE Len(ordered)

\* the possible results of get_weekly_inflow_summary
get_weekly_inflow_summary(d) ==
    LET keys == GroupKeys([i \in 1..Len(d) |-> d[i].Projection])
        grouped == [i \in 1..Len(keys) |->
                      LET rows == SelectSeq(d, LAMBDA r : r.Projection = keys[i])
                      IN [Projection |-> keys[i],
                          TotalInflow |-> SumTotal(rows),
                          InvoiceCount |-> CountReference(rows)]]
        split == _split_inflow_dispute(d)
        ordered == sorted_by_sort_key(split.inflow) \o sorted(split.dispute)
        sortcol == [i \in 1..Len(grouped) |-> OrderOf(ordered, grouped[i].Projection)]
        grand_total == SumField(grouped, "TotalInflow")
    IN {[i \in 1..Len(g) |->
            [Projection |-> g[i].Projection,
             TotalInflow |-> g[i].TotalInflow,
             InvoiceCount |-> g[i].InvoiceCount,
             PctOfTotal |-> PctOfTotal(g[i].TotalInflow, grand_total)]] :
        g \in SortValues(grouped, sortcol, 1..Len(grouped))}

get_expected_inflow_total(d) ==
    LET inflow_cats == _split_inflow_dispute(d).inflow
    IN SumTotal(SelectSeq(d, LAMBDA r : InSeq(r.Projection, inflow_cats)))

get_dispute_total(d) ==
    LET dispute_cats == _split_inflow_dispute(d).dispute
    IN SumTotal(SelectSeq(d, LAMBDA r : InSeq(r.Projection, dispute_cats)))

get_grand_total(d) == SumTotal(d)

(***************************************************************************)
(* Due wise outstanding.                                                   *)
(***************************************************************************)
INTERNAL == <<"i", "n", "t", "e", "r", "n", "a", "l">>

VALID_REMARKS ==
    <<<<"f", "u", "t", "u", "r", "e", " ", "d", "u", "e">>,
      <<"c", "u", "r", "r", "e", "n", "t", " ", "d", "u", "e">>,
      <<"o", "v", "e", "r", "d", "u", "e">>,
      <<"c", "r", "e", "d", "i", "t", " ", "m", "e", "m", "o">>,
      <<"u", "n", "a", "p", "p", "l", "i", "e", "d">>>>

\* mutant: the whitelist is matched without lowering the remark
IsValidRemark_CaseSensitive(remark) == InSeq(remark, VALID_REMARKS)

\* filtered_df["Remarks"].str.lower().isin(valid_remarks)
IsValidRemark(remark) == InSeq(lower(remark), VALID_REMARKS)

\* filtered_df["Remarks"] = filtered_df["Remarks"].str.strip()
StripRemarks(d) == [i \in 1..Len(d) |-> [d[i] EXCEPT !.Remarks = strip(@)]]

\* filtered_df[~filtered_df["Remarks"].str.lower().eq("internal")]
DropInternalRemarks(d) == SelectSeq(d, LAMBDA r : lower(r.Remarks) # INTERNAL)

\* the possible results of get_due_wise_outstanding
get_due_wise_outstanding(d) ==
    LET filtered == SelectSeq(DropInternalRemarks(StripRemarks(d)),
                              LAMBDA r : IsValidRemark(r.Remarks))
        keys == GroupKeys([i \in 1..Len(filtered) |-> filtered[i].Remarks])
        grouped == [i \in 1..Len(keys) |->
                      LET rows == SelectSeq(filtered, LAMBDA r : r.Remarks = keys[i])
                      IN [Remarks |-> keys[i],
                          TotalOutstanding |-> SumTotal(rows),
                          InvoiceCount |-> CountReference(rows)]]
        descending == [i \in 1..Len(grouped) |-> 0 - grouped[i].TotalOutstanding]
        grand_total == SumField(grouped, "TotalOutstanding")
    IN {[i \in 1..Len(g) |->
            [Remarks |-> g[i].Remarks,
             TotalOutstanding |-> g[i].TotalOutstanding,
             InvoiceCount |-> g[i].InvoiceCount,
             PctOfTotal |-> PctOfTotal(g[i].TotalOutstanding, grand_total)]] :
        g \in SortValues(grouped, descending, 1..Len(grouped))}

(***************************************************************************)
(* X wise outstanding: group by (dimension, Remarks), pivot Remarks into   *)
(* columns, add the canonical columns and the row total, sort by total.    *)
(***************************************************************************)
CANONICAL_COLS == <<S_CurrentDue, S_Overdue>>

TOTAL_OUTSTANDING == <<"T", "o", "t", "a", "l", " ", "O", "u", "t", "s", "t", "a", "n", "d", "i", "n", "g", " ", "(", "U", "S", "D", ")">>

\* mutant: the canonical columns are not added
EnsureColumns_None(columns, wanted) == columns

\* mutant: the canonical columns are added to a pivot that has columns only
EnsureColumns_NonEmpty(columns, wanted) ==
    IF columns = <<>> THEN <<>>
    ELSE columns \o SelectSeq(wanted, LAMBDA c : ~InSeq(c, columns))

\* for col in ("Current Due", "Overdue"): if col not in pivot.columns: pivot[col] = 0.0
RECURSIVE EnsureColumns(_, _)
EnsureColumns(columns, wanted) ==
    IF wanted = <<>> THEN columns
    ELSE EnsureColumns(IF InSeq(Head(wanted), columns) THEN columns
                       ELSE Append(columns, Head(wanted)),
                       Tail(wanted))

\* mutant: the total adds the canonical columns only
SumCells_Canonical(cells, cols) == cells[S_CurrentDue] + cells[S_Overdue]

\* pivot[remark_cols].sum(axis=1)
RECURSIVE SumCells(_, _)
SumCells(cells, cols) ==
    IF cols = <<>> THEN 0 ELSE cells[Head(cols)] + SumCells(cells, Tail(cols))

\* the possible results of the pivot of rows on the column dim; groupby drops
\* the rows whose key is missing, fill_value puts 0 in the cells without rows
PivotOutstanding(rows, dim) ==
    LET keyed == SelectSeq(rows, LAMBDA r : ~isna(r[dim]) /\ ~isna(r.Remarks))
        index == GroupKeys([i \in 1..Len(keyed) |-> keyed[i][dim]])
        columns == GroupKeys([i \in 1..Len(keyed) |-> keyed[i].Remarks])
        remark_cols == SelectSeq(EnsureColumns(columns, CANONICAL_COLS),
                                 LAMBDA c : c # TOTAL_OUTSTANDING)
        Cells(k) == [c \in Range(remark_cols) |->
                        SumTotal(SelectSeq(keyed, LAMBDA r : r[dim] = k /\ r.Remarks = c))]
        pivot == [i \in 1..Len(index) |->
                    [key |-> index[i],
                     cells |-> Cells(index[i]),
                     total |-> SumCells(Cells(index[i]), remark_cols)]]
        descending == [i \in 1..Len(pivot) |-> 0 - pivot[i].total]
    IN {[columns |-> remark_cols, rows |-> t] :
        t \in SortValues(pivot, descending, 1..Len(pivot))}

get_customer_wise_outstanding(d) ==
    PivotOutstanding(DropInternalRemarks(StripRemarks(d)), "CustomerName")

\* filtered_df["New Org Name"].str.strip(), then drop the "internal" org
DropInternalOrg(d) ==
    SelectSeq([i \in 1..Len(d) |-> [d[i] EXCEPT !.NewOrgName = strip(@)]],
              LAMBDA r : lower(r.NewOrgName) # INTERNAL)

get_business_wise_outstanding(d) == PivotOutstanding(DropInternalOrg(d), "NewOrgName")

get_allocation_wise_outstanding(d) ==
    PivotOutstanding(DropInternalRemarks(StripRemarks(d)), "Allocation")

get_entities_wise_outstanding(d) == PivotOutstanding(d, "Entities")

(***************************************************************************)
(* Drill-down detail: the rows that match a key, projected to the display  *)
(* columns, Reference as str, sorted by Total in USD descending.  A cell   *)
(* of Reference read from a spreadsheet may be a number, <<"int", n>>.     *)
(***************************************************************************)
DETAIL_COLS ==
    <<"CustomerName", "Reference", "NewOrgName", "ARComments", "ARStatus", "Total">>

DETAIL_COLS_REMARKS ==
    <<"CustomerName", "Reference", "NewOrgName", "ARComments", "ARStatus",
      "Remarks", "Total">>

DETAIL_COLS_ALLOCATION ==
    <<"CustomerName", "Reference", "NewOrgName", "Allocation", "ARComments",
      "ARStatus", "Remarks", "Total">>

\* a call returns a table, or raises the KeyError of df[col] and of
\* df.loc[mask, cols] on a column that is not there
KeyError == "KeyError"

Raise(e) == [raised |-> e, columns |-> <<>>, rows |-> <<>>]

Return(cols, rows) == [raised |-> "", columns |-> cols, rows |-> rows]

IsNum(v) == Len(v) = 2 /\ v[1] = "int"

\* str(n) of a non-negative int
RECURSIVE StrOfInt(_)
StrOfInt(n) ==
    IF n < 10 THEN <<DigitChars[n + 1]>>
    ELSE StrOfInt(n \div 10) \o <<DigitChars[(n % 10) + 1]>>

\* the column is float64 when it holds numbers and missing cells only
IsFloatColumn(col) ==
    /\ \E i \in 1..Len(col) : isna(col[i])
    /\ \E i \in 1..Len(col) : IsNum(col[i])
    /\ \A i \in 1..Len(col) : isna(col[i]) \/ IsNum(col[i])

\* Series.astype(str) of one cell of the column col
astype_str(v, col) ==
    IF isna(v) THEN <<"n", "a", "n">>
    ELSE IF IsNum(v)
         THEN IF IsFloatColumn(col) THEN StrOfInt(v[2]) \o <<".", "0">>
              ELSE StrOfInt(v[2])
         ELSE v

\* mutant: the key is compared as given
MatchesKey_KeyAsGiven(cell, key) == ~isna(cell) /\ lower(strip(cell)) = key

\* Series.str.strip().str.lower() == key.strip().lower(); False on a missing cell
MatchesKey(cell, key) == ~isna(cell) /\ lower(strip(cell)) = lower(strip(key))

\* df.loc[mask, cols].copy(): the rows at idxs, each cut to cols
Loc(d, idxs, cols) ==
    LET picked == SelectSeq([i \in 1..Len(d) |-> [idx |-> i, row |-> d[i]]],
                            LAMBDA x : x.idx \in idxs)
    IN [i \in 1..Len(picked) |-> [c \in Range(cols) |-> picked[i].row[c]]]

\* detail["Reference"] = detail["Reference"].astype(str)
ReferenceAsStr(d, detail) ==
    LET col == [i \in 1..Len(d) |-> d[i].Reference]
    IN [i \in 1..Len(detail) |->
           [detail[i] EXCEPT !.Reference = astype_str(detail[i].Reference, col)]]

\* sort_values("Total in USD", ascending=False).reset_index(drop=True)
SortByTotalDescending(detail, cols) ==
    {Return(cols, t) :
        t \in SortValues(detail, [i \in 1..Len(detail) |-> 0 - detail[i].Total],
                         1..Len(detail))}

\* the rows of d whose cell in column f matches key
MaskOf(d, f, key) == {i \in 1..Len(d) : MatchesKey(d[i][f], key)}

get_projection_detail(d, cs, projection_value) ==
    IF ~({"Projection"} \cup Range(DETAIL_COLS) \subseteq cs) THEN {Raise(KeyError)}
    ELSE LET mask == {i \in 1..Len(d) : d[i].Projection = projection_value}
         IN SortByTotalDescending(Loc(d, mask, DETAIL_COLS), DETAIL_COLS)

get_due_wise_detail(d, cs, remarks_value) ==
    IF ~({"Remarks"} \cup Range(DETAIL_COLS) \subseteq cs) THEN {Raise(KeyError)}
    ELSE SortByTotalDescending(
             ReferenceAsStr(d, Loc(d, MaskOf(d, "Remarks", remarks_value), DETAIL_COLS)),
             DETAIL_COLS)

get_customer_wise_detail(d, cs, customer_name) ==
    IF ~(Range(DETAIL_COLS_REMARKS) \subseteq cs) THEN {Raise(KeyError)}
    ELSE SortByTotalDescending(
             ReferenceAsStr(d, Loc(d, MaskOf(d, "CustomerName", customer_name),
                                   DETAIL_COLS_REMARKS)),
             DETAIL_COLS_REMARKS)

get_business_wise_detail(d, cs, org_name) ==
    IF ~(Range(DETAIL_COLS_REMARKS) \subseteq cs) THEN {Raise(KeyError)}
    ELSE SortByTotalDescending(
             ReferenceAsStr(d, Loc(d, MaskOf(d, "NewOrgName", org_name),
                                   DETAIL_COLS_REMARKS)),
             DETAIL_COLS_REMARKS)

get_allocation_remark_detail(d, cs, allocation_value, remarks_value) ==
    IF ~(Range(DETAIL_COLS_ALLOCATION) \subseteq cs) THEN {Raise(KeyError)}
    ELSE SortByTotalDescending(
             ReferenceAsStr(d, Loc(d, MaskOf(d, "Allocation", allocation_value)
                                        \cap MaskOf(d, "Remarks", remarks_value),
                                   DETAIL_COLS_ALLOCATION)),
             DETAIL_COLS_ALLOCATION)

(***************************************************************************)
(* What a method does to the controller's own table.  A DataFrame object   *)
(* is its rows and whether it is the object self.df holds; an assignment   *)
(* to a column of the object self.df holds changes the controller's table. *)
(***************************************************************************)
S_CreditMemo == <<"c", "r", "e", "d", "i", "t", " ", "m", "e", "m", "o">>

S_Unapplied == <<"u", "n", "a", "p", "p", "l", "i", "e", "d">>

\* self.df.loc[mask, "Total in USD"].sum() where mask is
\* self.df["Remarks"].str.strip().str.lower() == "credit memo"
get_credit_memo_total(d) ==
    SumTotal(SelectSeq(d, LAMBDA r : ~isna(r.Remarks) /\ lower(strip(r.Remarks)) = S_CreditMemo))

get_unapplied_total(d) ==
    SumTotal(SelectSeq(d, LAMBDA r : ~isna(r.Remarks) /\ lower(strip(r.Remarks)) = S_Unapplied))

\* the object self.df evaluates to
SelfDf(d) == [own |-> TRUE, rows |-> d]

\* mutant: no copy, the method works on the controller's own object
copy_Alias(frame) == frame

\* DataFrame.copy(): another object with the same rows
copy(frame) == [own |-> FALSE, rows |-> frame.rows]

\* frame[col] = frame[col].str.strip(), an assignment into the object
AssignStripped(frame, col) ==
    [frame EXCEPT !.rows = [i \in 1..Len(@) |-> [@[i] EXCEPT ![col] = strip(@)]]]

\* the controller's table after a method that did
\* filtered_df = self.df.copy(); filtered_df[col] = filtered_df[col].str.strip()
AfterCopyAndStrip(d, col) ==
    LET filtered_df == AssignStripped(copy(SelfDf(d)), col)
    IN IF filtered_df.own THEN filtered_df.rows ELSE d

(***************************************************************************)
(* The controller's calls.  op names the last method called on the table   *)
(* df of columns df_columns, args its arguments, result what it returned.  *)
(***************************************************************************)
SplitInflowDispute ==
    /\ op' = "_split_inflow_dispute"
    /\ result' = _split_inflow_dispute(df)
    /\ args' = <<>>
    /\ UNCHANGED <<df, df_columns, appVars>>

GetWeeklyInflowSummary ==
    /\ op' = "get_weekly_inflow_summary"
    /\ result' \in get_weekly_inflow_summary(df)
    /\ args' = <<>>
    /\ UNCHANGED <<df, df_columns, appVars>>

GetExpectedInflowTotal ==
    /\ op' = "get_expected_inflow_total"
    /\ result' = get_expected_inflow_total(df)
    /\ args' = <<>>
    /\ UNCHANGED <<df, df_columns, appVars>>

GetDisputeTotal ==
    /\ op' = "get_dispute_total"
    /\ result' = get_dispute_total(df)
    /\ args' = <<>>
    /\ UNCHANGED <<df, df_columns, appVars>>

GetGrandTotal ==
    /\ op' = "get_grand_total"
    /\ result' = get_grand_total(df)
    /\ args' = <<>>
    /\ UNCHANGED <<df, df_columns, appVars>>

GetCreditMemoTotal ==
    /\ op' = "get_credit_memo_total"
    /\ result' = get_credit_memo_total(df)
    /\ args' = <<>>
    /\ UNCHANGED <<df, df_columns, appVars>>

GetUnappliedTotal ==
    /\ op' = "get_unapplied_total"
    /\ result' = get_unapplied_total(df)
    /\ args' = <<>>
    /\ UNCHANGED <<df, df_columns, appVars>>

GetDueWiseOutstanding ==
    /\ op' = "get_due_wise_outstanding"
    /\ result' \in get_due_wise_outstanding(df)
    /\ args' = <<>>
    /\ df' = AfterCopyAndStrip(df, "Remarks")
    /\ UNCHANGED <<df_columns, appVars>>

GetCustomerWiseOutstanding ==
    /\ op' = "get_customer_wise_outstanding"
    /\ result' \in get_customer_wise_outstanding(df)
    /\ args' = <<>>
    /\ df' = AfterCopyAndStrip(df, "Remarks")
    /\ UNCHANGED <<df_columns, appVars>>

GetBusinessWiseOutstanding ==
    /\ op' = "get_business_wise_outstanding"
    /\ result' \in get_business_wise_outstanding(df)
    /\ args' = <<>>
    /\ df' = AfterCopyAndStrip(df, "NewOrgName")
    /\ UNCHANGED <<df_columns, appVars>>

GetAllocationWiseOutstanding ==
    /\ op' = "get_allocation_wise_outstanding"
    /\ result' \in get_allocation_wise_outstanding(df)
    /\ args' = <<>>
    /\ df' = AfterCopyAndStrip(df, "Remarks")
    /\ UNCHANGED <<df_columns, appVars>>

GetEntitiesWiseOutstanding ==
    /\ op' = "get_entities_wise_outstanding"
    /\ result' \in get_entities_wise_outstanding(df)
    /\ args' = <<>>
    /\ UNCHANGED <<df, df_columns, appVars>>

GetProjectionDetail(projection_value) ==
    /\ op' = "get_projection_detail"
    /\ args' = <<projection_value>>
    /\ result' \in get_projection_detail(df, df_columns, projection_value)
    /\ UNCHANGED <<df, df_columns, appVars>>

GetDueWiseDetail(remarks_value) ==
    /\ op' = "get_due_wise_detail"
    /\ args' = <<remarks_value>>
    /\ result' \in get_due_wise_detail(df, df_columns, remarks_value)
    /\ UNCHANGED <<df, df_columns, appVars>>

GetCustomerWiseDetail(customer_name) ==
    /\ op' = "get_customer_wise_detail"
    /\ args' = <<customer_name>>
    /\ result' \in get_customer_wise_detail(df, df_columns, customer_name)
    /\ UNCHANGED <<df, df_columns, appVars>>

GetBusinessWiseDetail(org_name) ==
    /\ op' = "get_business_wise_detail"
    /\ args' = <<org_name>>
    /\ result' \in get_business_wise_detail(df, df_columns, org_name)
    /\ UNCHANGED <<df, df_columns, appVars>>

GetAllocationRemarkDetail(allocation_value, remarks_value) ==
    /\ op' = "get_allocation_remark_detail"
    /\ args' = <<allocation_value, remarks_value>>
    /\ result' \in get_allocation_remark_detail(df, df_columns, allocation_value,
                                                remarks_value)
    /\ UNCHANGED <<df, df_columns, appVars>>

(***************************************************************************)
(* Spec: tables that vary in Projection and Total in USD.                  *)
(***************************************************************************)
ProjectionValues ==
    {S_Feb1stWeek, S_Mar1stWeek, S_NextMonth, S_Week1, S_DisputeLegal,
     S_InDISPUTE, S_Blank, NA}

ProjectionRows ==
    {[DefaultRow EXCEPT !.Projection = p, !.Total = t] :
        p \in ProjectionValues, t \in Amounts}

Init ==
    /\ df \in TablesOf(ProjectionRows)
    /\ df_columns = ALL_COLUMNS
    /\ op = "init"
    /\ args = <<>>
    /\ result = <<>>
    /\ Idle

Next ==
    \/ SplitInflowDispute
    \/ GetWeeklyInflowSummary
    \/ GetExpectedInflowTotal
    \/ GetDisputeTotal
    \/ GetGrandTotal

Spec == Init /\ [][Next]_vars

(***************************************************************************)
(* Claims checked under Spec.                                              *)
(***************************************************************************)
IsBlankProjection(p) == isna(p) \/ strip(p) = <<>>

\* the label, read without regard to case, holds the keyword "dispute" at some place
HoldsKeyword(p) ==
    \E at \in 0..(Len(p) - Len(DISPUTE_KEYWORD)) :
        \A k \in 1..Len(DISPUTE_KEYWORD) :
            LowerChar(p[at + k]) = LowerChar(DISPUTE_KEYWORD[k])

BlankRows(d) == SelectSeq(d, LAMBDA r : IsBlankProjection(r.Projection))

\* C1 as stated: on a cleaned table, expected inflow total + dispute total =
\* grand total, every row being counted in exactly one of the two buckets.
C1_InflowPlusDisputeIsGrandTotal ==
    (IsCleaned(df) /\ op = "get_grand_total")
        => get_expected_inflow_total(df) + get_dispute_total(df) = result

\* C1 amended: on a cleaned table, expected inflow total + dispute total equals
\* the grand total less the Total in USD of the rows whose Projection is blank;
\* a row with a non-blank Projection is counted in exactly one bucket, a row
\* with a blank Projection in neither.
C1_InflowPlusDisputeIsNonBlankTotal ==
    (IsCleaned(df) /\ op = "get_grand_total")
        => LET split == _split_inflow_dispute(df)
           IN /\ get_expected_inflow_total(df) + get_dispute_total(df)
                    = result - SumTotal(BlankRows(df))
              /\ \A i \in 1..Len(df) :
                    /\ ~IsBlankProjection(df[i].Projection)
                          => (InSeq(df[i].Projection, split.inflow)
                                 # InSeq(df[i].Projection, split.dispute))
                    /\ IsBlankProjection(df[i].Projection)
                          => /\ ~InSeq(df[i].Projection, split.inflow)
                             /\ ~InSeq(df[i].Projection, split.dispute)

\* C1 witness: the grand total of a cleaned table with a dispute row and an
\* inflow row, both of non-zero amount
C1_Witness ==
    /\ IsCleaned(df) /\ op = "get_grand_total"
    /\ get_dispute_total(df) # 0
    /\ get_expected_inflow_total(df) # 0
    /\ result = get_expected_inflow_total(df) + get_dispute_total(df)

\* C2: _split_inflow_dispute returns two disjoint duplicate-free lists whose
\* union is the set of non-blank, non-missing Projection values of the table; a
\* value is in dispute iff its text holds the keyword ignoring case, else in inflow.
C2_SplitPartitionsByKeyword ==
    op = "_split_inflow_dispute"
        => LET present == {df[i].Projection : i \in 1..Len(df)}
               labels == {p \in present : ~IsBlankProjection(p)}
           IN /\ Range(result.inflow) \cap Range(result.dispute) = {}
              /\ Range(result.inflow) \cup Range(result.dispute) = labels
              /\ Cardinality(Range(result.inflow)) = Len(result.inflow)
              /\ Cardinality(Range(result.dispute)) = Len(result.dispute)
              /\ \A p \in labels : InSeq(p, result.dispute) <=> HoldsKeyword(p)
              /\ \A p \in labels : InSeq(p, result.inflow) <=> ~HoldsKeyword(p)

\* C2 witness: a split with a dispute label in another letter case than the
\* keyword, over a table that also holds a blank or missing Projection
C2_Witness ==
    /\ op = "_split_inflow_dispute"
    /\ InSeq(S_InDISPUTE, result.dispute)
    /\ \E i \in 1..Len(df) : IsBlankProjection(df[i].Projection)

\* where the claim puts a summary row: 0 inflow, 1 dispute, 2 in neither list
RowClass(d, p) ==
    IF InSeq(p, _split_inflow_dispute(d).inflow) THEN 0
    ELSE IF InSeq(p, _split_inflow_dispute(d).dispute) THEN 1
    ELSE 2

\* C4: the rows of get_weekly_inflow_summary are the inflow projections in
\* sort-key order, then the dispute projections in alphabetical order, then the
\* values in neither list; no dispute row precedes an inflow row.
C4_WeeklySummaryOrder ==
    op = "get_weekly_inflow_summary"
        => \A i, j \in 1..Len(result) :
              i < j =>
                 LET p == result[i].Projection
                     q == result[j].Projection
                 IN /\ RowClass(df, p) <= RowClass(df, q)
                    /\ (RowClass(df, p) = 0 /\ RowClass(df, q) = 0)
                          => ~KeyLess(_sort_key(q), _sort_key(p))
                    /\ (RowClass(df, p) = 1 /\ RowClass(df, q) = 1)
                          => ~StrLess(q, p)

\* C4 witness: a summary whose inflow row comes before its dispute row although
\* the table lists the dispute row first
C4_Witness ==
    /\ op = "get_weekly_inflow_summary"
    /\ Len(df) = 2 /\ Len(result) = 2
    /\ RowClass(df, df[1].Projection) = 1
    /\ RowClass(df, df[2].Projection) = 0
    /\ result[1].Projection = df[2].Projection

(***************************************************************************)
(* SpecSort: tables that vary in the inflow labels to be ordered, among    *)
(* them every arrangement of the six "Feb ... week" labels.                *)
(***************************************************************************)
SortLabels ==
    {S_Feb1stWeek, S_FebCurrentWeek, S_FebLastWeek, S_Mar1stWeek, S_MarJan2nd,
     S_NextMonth, S_DecNextMonth, S_Week1, S_CurrentWeek, S_Last1st, S_FEB1STWEEK}

FebWeeks ==
    <<S_FebCurrentWeek, S_Feb1stWeek, S_Feb2ndWeek, S_Feb3rdWeek, S_Feb4thWeek,
      S_FebLastWeek>>

RECURSIVE Arrangements(_)
Arrangements(S) ==
    IF S = {} THEN {<<>>}
    ELSE UNION {{<<x>> \o t : t \in Arrangements(S \ {x})} : x \in S}

LabelRow(p) == [DefaultRow EXCEPT !.Projection = p]

InitSort ==
    /\ df \in TablesOf({LabelRow(p) : p \in SortLabels})
              \cup {[i \in 1..Len(a) |-> LabelRow(a[i])] : a \in Arrangements(Range(FebWeeks))}
    /\ df_columns = ALL_COLUMNS
    /\ op = "init"
    /\ args = <<>>
    /\ result = <<>>
    /\ Idle

NextSort ==
    \/ SplitInflowDispute
    \/ GetWeeklyInflowSummary

SpecSort == InitSort /\ [][NextSort]_vars

\* the text, read without regard to case, holds the token at some place
HoldsText(tok, p) ==
    \E at \in 0..(Len(p) - Len(tok)) :
        \A k \in 1..Len(tok) : LowerChar(p[at + k]) = LowerChar(tok[k])

\* the claim's tables: the rank of a token is its place
ClaimMonths ==
    <<<<"j", "a", "n">>,
      <<"f", "e", "b">>,
      <<"m", "a", "r">>,
      <<"a", "p", "r">>,
      <<"m", "a", "y">>,
      <<"j", "u", "n">>,
      <<"j", "u", "l">>,
      <<"a", "u", "g">>,
      <<"s", "e", "p">>,
      <<"o", "c", "t">>,
      <<"n", "o", "v">>,
      <<"d", "e", "c">>>>

ClaimWeeks ==
    <<<<"c", "u", "r", "r", "e", "n", "t">>,
      <<"1", "s", "t">>,
      <<"2", "n", "d">>,
      <<"3", "r", "d">>,
      <<"4", "t", "h">>,
      <<"l", "a", "s", "t">>>>

ClaimRank(table, p) ==
    IF \E r \in 1..Len(table) : HoldsText(table[r], p)
    THEN CHOOSE r \in 1..Len(table) :
            /\ HoldsText(table[r], p)
            /\ \A q \in 1..(r - 1) : ~HoldsText(table[q], p)
    ELSE 99

ClaimMonthRank(p) == IF HoldsText(NEXT_MONTH, p) THEN 98 ELSE ClaimRank(ClaimMonths, p)

ClaimWeekRank(p) == ClaimRank(ClaimWeeks, p)

\* 0 a label of an explicit month, 1 a "next month" label, 2 no recognised month
MonthClass(p) ==
    IF HoldsText(NEXT_MONTH, p) THEN 1
    ELSE IF \E r \in 1..Len(ClaimMonths) : HoldsText(ClaimMonths[r], p) THEN 0
    ELSE 2

PctRows ==
    {[DefaultRow EXCEPT !.Projection = k[1], !.Remarks = k[2], !.Total = t] :
        k \in {<<S_Feb1stWeek, S_CurrentDue>>, <<S_Mar1stWeek, S_Overdue>>,
               <<S_DisputeLegal, S_OVERDUE>>, <<S_Blank, S_Internal>>},
        t \in Amounts}

InitPct ==
    /\ df \in TablesUpTo(PctRows, MaxPctRows)
    /\ df_columns = ALL_COLUMNS
    /\ op = "init"
    /\ args = <<>>
    /\ result = <<>>
    /\ Idle

NextPct ==
    \/ GetWeeklyInflowSummary
    \/ GetDueWiseOutstanding

SpecPct == InitPct /\ [][NextPct]_vars

Abs(x) == IF x < 0 THEN 0 - x ELSE x

\* the "% of Total" column of a result against the total of its amount column:
\* within half a hundredth per row of 100.00 when the total is positive, all
\* 0.00 when the total is 0
PctColumnOk(rows, amount) ==
    LET total == SumField(rows, amount)
    IN /\ total > 0 => 2 * Abs(SumField(rows, "PctOfTotal") - 10000) <= Len(rows)
       /\ total = 0 => \A i \in 1..Len(rows) : rows[i].PctOfTotal = 0

\* C5: in the weekly inflow summary and in the due-wise outstanding table the
\* % of Total column sums to 100.0 within the rounding of its rows when the
\* grand total of the table's amounts is > 0, and is 0.0 in every row when that
\* total is 0.
C5_PctOfTotalSums ==
    /\ op = "get_weekly_inflow_summary" => PctColumnOk(result, "TotalInflow")
    /\ op = "get_due_wise_outstanding" => PctColumnOk(result, "TotalOutstanding")

\* C5 witness: a due-wise table of three rows with a positive total whose
\* rounded percentages do not add up to 100.00 exactly
C5_Witness ==
    /\ op = "get_due_wise_outstanding"
    /\ Len(result) = 3
    /\ SumField(result, "TotalOutstanding") > 0
    /\ SumField(result, "PctOfTotal") # 10000

(***************************************************************************)
(* SpecDue: tables that vary in Remarks, Reference and Total in USD.       *)
(***************************************************************************)
DueRemarks ==
    {S_CurrentDue, S_Overdue, S_OverdueSp, S_OVERDUE, S_Internal, S_SpINTERNAL, S_Legal}

DueRows ==
    {[DefaultRow EXCEPT !.Remarks = r, !.Total = t] : r \in DueRemarks, t \in Amounts}
        \cup {[DefaultRow EXCEPT !.Remarks = S_Overdue, !.Reference = NA, !.Total = t] :
                 t \in Amounts}

InitDue ==
    /\ df \in TablesOf(DueRows)
    /\ df_columns = ALL_COLUMNS
    /\ op = "init"
    /\ args = <<>>
    /\ result = <<>>
    /\ Idle

NextDue ==
    \/ GetDueWiseOutstanding
    \/ GetGrandTotal

SpecDue == InitDue /\ [][NextDue]_vars

\* the remark, ignoring case and surrounding whitespace, is the text t
SameRemark(remark, t) == lower(strip(remark)) = t

InWhitelist(remark) == \E k \in 1..Len(VALID_REMARKS) : SameRemark(remark, VALID_REMARKS[k])

NonIncreasing(rows, amount) ==
    \A i, j \in 1..Len(rows) : i < j => rows[i][amount] >= rows[j][amount]

\* C8 as stated: on a cleaned table the due-wise Total Outstanding (USD) sums
\* to at most the sum of total_usd over all rows.
C8_DueWiseSumAtMostGrandTotal ==
    (IsCleaned(df) /\ op = "get_due_wise_outstanding")
        => SumField(result, "TotalOutstanding") <= get_grand_total(df)

\* C8 amended: on a cleaned table the due-wise Total Outstanding (USD) sums to
\* the sum of total_usd over the rows whose remark is in the whitelist; it is at
\* most the sum over all rows when the rows outside the whitelist sum to >= 0.
C8_DueWiseSumIsWhitelistTotal ==
    (IsCleaned(df) /\ op = "get_due_wise_outstanding")
        => LET kept == SelectSeq(df, LAMBDA r : InWhitelist(r.Remarks))
               dropped == SelectSeq(df, LAMBDA r : ~InWhitelist(r.Remarks))
           IN /\ SumField(result, "TotalOutstanding") = SumTotal(kept)
              /\ SumTotal(dropped) >= 0
                    => SumField(result, "TotalOutstanding") <= get_grand_total(df)

\* C8 witness: a cleaned table with a whitelisted row and a row outside the
\* whitelist, the due-wise sum below the grand total
C8_Witness ==
    /\ IsCleaned(df) /\ op = "get_due_wise_outstanding"
    /\ \E i \in 1..Len(df) : ~InWhitelist(df[i].Remarks)
    /\ Len(result) > 0
    /\ SumField(result, "TotalOutstanding") < get_grand_total(df)

\* C9 as stated: get_due_wise_outstanding has one row per whitelisted remark
\* of the table (ignoring case and surrounding whitespace), none for "internal"
\* or a remark outside the whitelist; a row's amount and invoice count are the
\* sum and the count over the rows with its remark; amounts are non-increasing.
C9_DueWiseGroupsWhitelist ==
    op = "get_due_wise_outstanding"
        => /\ {result[i].Remarks : i \in 1..Len(result)}
                 = {strip(df[i].Remarks) : i \in {k \in 1..Len(df) : InWhitelist(df[k].Remarks)}}
           /\ \A i, j \in 1..Len(result) : result[i].Remarks = result[j].Remarks => i = j
           /\ \A i \in 1..Len(result) :
                 LET rows == SelectSeq(df, LAMBDA r : strip(r.Remarks) = result[i].Remarks)
                 IN /\ ~SameRemark(result[i].Remarks, INTERNAL)
                    /\ InWhitelist(result[i].Remarks)
                    /\ result[i].TotalOutstanding = SumTotal(rows)
                    /\ result[i].InvoiceCount = Len(rows)
           /\ NonIncreasing(result, "TotalOutstanding")

(***************************************************************************)
(* SpecPivot: tables that vary in Remarks, the dimension columns and Total *)
(* in USD.  A Customer Name is missing only in a leading run of rows (what *)
(* the forward fill of _clean leaves).                                     *)
(***************************************************************************)
PivotRemarks == {S_CurrentDue, S_overdue, S_Internal, S_SpINTERNAL, S_Legal}

PivotAmounts == {-100, 200}

PivotRows ==
    {[DefaultRow EXCEPT !.Remarks = r, !.Total = t, !.CustomerName = k[1],
                        !.Allocation = k[2], !.Entities = k[3], !.NewOrgName = k[4]] :
        r \in PivotRemarks, t \in PivotAmounts,
        k \in {<<S_A, S_X, S_E1, S_BU1>>, <<S_B, S_Y, S_E2, S_Internal>>,
               <<NA, S_X, S_E2, S_BU1>>}}

ForwardFilled(d) ==
    \A i \in 2..Len(d) : isna(d[i].CustomerName) => isna(d[i - 1].CustomerName)

InitPivot ==
    /\ df \in {d \in TablesOf(PivotRows) : ForwardFilled(d)}
    /\ df_columns = ALL_COLUMNS
    /\ op = "init"
    /\ args = <<>>
    /\ result = <<>>
    /\ Idle

NextPivot ==
    \/ GetCustomerWiseOutstanding
    \/ GetBusinessWiseOutstanding
    \/ GetAllocationWiseOutstanding
    \/ GetEntitiesWiseOutstanding

SpecPivot == InitPivot /\ [][NextPivot]_vars

IsPivot ==
    op \in {"get_customer_wise_outstanding", "get_business_wise_outstanding",
            "get_allocation_wise_outstanding", "get_entities_wise_outstanding"}

\* the column a pivot is indexed by, and the cells of a source row as the
\* method reads them (customer and allocation trim Remarks, business trims the
\* org name)
DimOf(r) ==
    IF op = "get_customer_wise_outstanding" THEN r.CustomerName
    ELSE IF op = "get_business_wise_outstanding" THEN strip(r.NewOrgName)
    ELSE IF op = "get_allocation_wise_outstanding" THEN r.Allocation
    ELSE r.Entities

RemarkOf(r) ==
    IF op \in {"get_customer_wise_outstanding", "get_allocation_wise_outstanding"}
    THEN strip(r.Remarks)
    ELSE r.Remarks

\* C6: every X-wise outstanding result has the columns "Current Due" and
\* "Overdue", and when no source row has either remark both are 0.0 in every row.
C6_CanonicalColumns ==
    IsPivot
        => /\ InSeq(S_CurrentDue, result.columns)
           /\ InSeq(S_Overdue, result.columns)
           /\ (\A i \in 1..Len(df) : strip(df[i].Remarks) \notin {S_CurrentDue, S_Overdue})
                 => \A i \in 1..Len(result.rows) :
                       /\ result.rows[i].cells[S_CurrentDue] = 0
                       /\ result.rows[i].cells[S_Overdue] = 0

\* C6 witness: a customer-wise result with a row, from a table without either remark
C6_Witness ==
    /\ op = "get_customer_wise_outstanding"
    /\ Len(result.rows) > 0
    /\ \A i \in 1..Len(df) : strip(df[i].Remarks) \notin {S_CurrentDue, S_Overdue}
    /\ result.rows[1].cells[S_CurrentDue] = 0
    /\ result.rows[1].total # 0

\* C7: in every X-wise outstanding result a row's total is the sum of its
\* remark columns, each the sum of total_usd over the rows with that dimension
\* value and remark (0 without such a row), and totals are non-increasing.
C7_PivotTotals ==
    IsPivot
        => /\ \A i \in 1..Len(result.rows) :
                 LET row == result.rows[i]
                 IN /\ DOMAIN row.cells = Range(result.columns)
                    /\ \A c \in Range(result.columns) :
                          row.cells[c]
                              = SumTotal(SelectSeq(df, LAMBDA r : DimOf(r) = row.key
                                                                  /\ RemarkOf(r) = c))
                    /\ row.total
                          = SumTotal(SelectSeq(df, LAMBDA r : DimOf(r) = row.key
                                                              /\ RemarkOf(r) \in Range(result.columns)))
           /\ Cardinality(Range(result.columns)) = Len(result.columns)
           /\ NonIncreasing(result.rows, "total")

\* C7 witness: an allocation-wise result whose row has amounts in the "Current
\* Due" column and in a "Legal" column, and a total that is their sum
C7_Witness ==
    /\ op = "get_allocation_wise_outstanding"
    /\ Len(result.rows) = 1
    /\ InSeq(S_Legal, result.columns)
    /\ result.rows[1].cells[S_CurrentDue] # 0
    /\ result.rows[1].cells[S_Legal] # 0
    /\ result.rows[1].total
          = result.rows[1].cells[S_CurrentDue] + result.rows[1].cells[S_Legal]

\* C10 as stated: the customer-wise and allocation-wise pivots leave out exactly
\* the rows whose remark is "internal" ignoring case and surrounding whitespace:
\* their Total Outstanding (USD) sums to the sum of total_usd over the other rows.
C10_PivotSumIsNonInternalTotal ==
    op \in {"get_customer_wise_outstanding", "get_allocation_wise_outstanding"}
        => SumField(result.rows, "total")
              = SumTotal(SelectSeq(df, LAMBDA r : ~SameRemark(r.Remarks, INTERNAL)))

\* C11 as stated: get_business_wise_outstanding leaves out the rows whose
\* remark is "internal" and the rows whose org name is "internal" (ignoring case
\* and surrounding whitespace): no result row is the Internal org, and every
\* cell and total is a sum over rows whose remark is not "internal".
C11_BusinessWiseExcludesInternal ==
    op = "get_business_wise_outstanding"
        => \A i \in 1..Len(result.rows) :
              LET row == result.rows[i]
                  kept == SelectSeq(df, LAMBDA r : /\ strip(r.NewOrgName) = row.key
                                                   /\ ~SameRemark(r.Remarks, INTERNAL))
              IN /\ ~SameRemark(row.key, INTERNAL)
                 /\ \A c \in DOMAIN row.cells :
                        row.cells[c] = SumTotal(SelectSeq(kept, LAMBDA r : r.Remarks = c))
                 /\ row.total = SumTotal(kept)

(***************************************************************************)
(* SpecDetail: the drill-down methods, on tables that vary in the key      *)
(* columns, Reference and Total in USD, with and without the optional      *)
(* display columns.                                                        *)
(***************************************************************************)
S_xLower == <<"x">>

S_aSpaced == <<" ", "a", " ">>

S_Bu1Lower == <<"b", "u", "1">>

NUMERIC_REFERENCE == <<"int", 12345>>

DetailProfiles ==
    {<<S_Feb1stWeek, S_Overdue, S_A, S_BU1, S_X>>,
     <<S_FEB1STWEEK, S_overdue, S_B, S_Internal, S_Y>>,
     <<S_Week1, S_CurrentDue, NA, S_BU1, S_X>>}

DetailRows ==
    {[DefaultRow EXCEPT !.Projection = k[1], !.Remarks = k[2], !.CustomerName = k[3],
                        !.NewOrgName = k[4], !.Allocation = k[5],
                        !.Reference = r, !.Total = t] :
        k \in DetailProfiles, r \in {S_INV, NUMERIC_REFERENCE}, t \in PivotAmounts}
    \cup {[DefaultRow EXCEPT !.Reference = NA, !.Remarks = S_Overdue, !.Total = t] :
            t \in PivotAmounts}

DetailColumnSets ==
    {ALL_COLUMNS, ALL_COLUMNS \ {"ARComments"}, ALL_COLUMNS \ {"Reference", "ARStatus"}}

ProjectionKeys == {S_Feb1stWeek, S_FEB1STWEEK, S_NextMonth}

RemarkKeys == {S_Overdue, S_OVERDUE, S_OverdueSp, S_Legal}

CustomerKeys == {S_A, S_aSpaced, S_Y}

OrgKeys == {S_BU1, S_Bu1Lower, S_Legal}

AllocationKeys == {S_X, S_xLower}

InitDetail ==
    /\ df \in {d \in TablesOf(DetailRows) : ForwardFilled(d)}
    /\ df_columns \in DetailColumnSets
    /\ op = "init"
    /\ args = <<>>
    /\ result = <<>>
    /\ Idle

NextDetail ==
    \/ \E k \in ProjectionKeys : GetProjectionDetail(k)
    \/ \E k \in RemarkKeys : GetDueWiseDetail(k)
    \/ \E k \in CustomerKeys : GetCustomerWiseDetail(k)
    \/ \E k \in OrgKeys : GetBusinessWiseDetail(k)
    \/ \E a \in AllocationKeys, k \in RemarkKeys : GetAllocationRemarkDetail(a, k)

SpecDetail == InitDetail /\ [][NextDetail]_vars

UpperChar(c) == IF InSeq(c, LowerChars) THEN UpperChars[IndexOf(c, LowerChars)] ELSE c

upper(s) == [i \in 1..Len(s) |-> UpperChar(s[i])]

\* the texts that differ from k in letter case or surrounding whitespace only
Variants(k) ==
    {k, lower(k), upper(k), strip(k), <<" ">> \o k, upper(k) \o <<" ", " ">>}

\* what the call op(a) may return on the table
DetailOutcomes(o, a) ==
    IF o = "get_projection_detail" THEN get_projection_detail(df, df_columns, a[1])
    ELSE IF o = "get_due_wise_detail" THEN get_due_wise_detail(df, df_columns, a[1])
    ELSE IF o = "get_customer_wise_detail"
         THEN get_customer_wise_detail(df, df_columns, a[1])
    ELSE IF o = "get_business_wise_detail"
         THEN get_business_wise_detail(df, df_columns, a[1])
    ELSE get_allocation_remark_detail(df, df_columns, a[1], a[2])

InsensitiveDetails ==
    {"get_due_wise_detail", "get_customer_wise_detail", "get_business_wise_detail",
     "get_allocation_remark_detail"}

IsDetail == op \in InsensitiveDetails \cup {"get_projection_detail"}

\* C12: get_due_wise_detail, get_customer_wise_detail, get_business_wise_detail
\* and get_allocation_remark_detail return the same rows for every variant of
\* their key(s) that differs only in letter case or surrounding whitespace.
C12_DetailKeyVariants ==
    op \in InsensitiveDetails
        => /\ result \in DetailOutcomes(op, args)
           /\ \A v \in Variants(args[1]) :
                 DetailOutcomes(op, [args EXCEPT ![1] = v]) = DetailOutcomes(op, args)
           /\ Len(args) = 2
                 => \A v \in Variants(args[2]) :
                       DetailOutcomes(op, [args EXCEPT ![2] = v]) = DetailOutcomes(op, args)

\* C12 witness: get_due_wise_detail("OVERDUE") returns the two rows of a table
\* that spells the remark "Overdue" and "overdue"
C12_Witness ==
    /\ op = "get_due_wise_detail" /\ args = <<S_OVERDUE>>
    /\ Len(df) = 2 /\ df[1].Remarks = S_Overdue /\ df[2].Remarks = S_overdue
    /\ result.raised = "" /\ Len(result.rows) = 2

\* C13 as stated: get_projection_detail called with a value that differs from a
\* stored label only in letter case or surrounding whitespace returns the rows
\* that the call with the stored label returns.
C13_ProjectionDetailInsensitive ==
    op = "get_projection_detail"
        => \A i \in 1..Len(df) :
              (~isna(df[i].Projection)
                  /\ lower(strip(df[i].Projection)) = lower(strip(args[1])))
              => result \in get_projection_detail(df, df_columns, df[i].Projection)

\* the display columns of the call
DetailColsOf(o) ==
    IF o \in {"get_projection_detail", "get_due_wise_detail"} THEN DETAIL_COLS
    ELSE IF o = "get_allocation_remark_detail" THEN DETAIL_COLS_ALLOCATION
    ELSE DETAIL_COLS_REMARKS

\* the rows the call's filter selects
DetailMask(o, a) ==
    IF o = "get_projection_detail"
    THEN {i \in 1..Len(df) : df[i].Projection = a[1]}
    ELSE IF o = "get_due_wise_detail" THEN MaskOf(df, "Remarks", a[1])
    ELSE IF o = "get_customer_wise_detail" THEN MaskOf(df, "CustomerName", a[1])
    ELSE IF o = "get_business_wise_detail" THEN MaskOf(df, "NewOrgName", a[1])
    ELSE MaskOf(df, "Allocation", a[1]) \cap MaskOf(df, "Remarks", a[2])

\* C14 as stated: on a table without some optional display columns a drill-down
\* does not raise: it returns the matching rows with the display columns that
\* are there.
C14_MissingColumnsOmitted ==
    IsDetail
        => /\ result.raised = ""
           /\ result.columns
                 = SelectSeq(DetailColsOf(op), LAMBDA c : c \in df_columns)
           /\ Len(result.rows) = Cardinality(DetailMask(op, args))

\* C15 as stated: a drill-down that returns has exactly the rows its filter
\* selects, each with its Reference as a string (the number 12345 as "12345"),
\* by Total in USD in non-increasing order.
C15_DetailRowsReferenceAsString ==
    (IsDetail /\ result.raised = "")
        => LET cols == Range(DetailColsOf(op))
               Expected(i) ==
                   [c \in cols |->
                       IF c # "Reference" THEN df[i][c]
                       ELSE IF IsNum(df[i].Reference) THEN StrOfInt(df[i].Reference[2])
                       ELSE IF isna(df[i].Reference) THEN <<"n", "a", "n">>
                       ELSE df[i].Reference]
               mask == DetailMask(op, args)
           IN /\ Len(result.rows) = Cardinality(mask)
              /\ \A i \in mask :
                    Cardinality({j \in 1..Len(result.rows) : result.rows[j] = Expected(i)})
                        = Cardinality({j \in mask : Expected(j) = Expected(i)})
              /\ NonIncreasing(result.rows, "Total")

(***************************************************************************)
(* SpecEdge: every aggregation, rollup and drill-down, on tables of all    *)
(* the columns that have no rows or a few.                                 *)
(***************************************************************************)
EdgeRows ==
    {[DefaultRow EXCEPT !.Projection = p, !.Total = t] :
        p \in {S_Feb1stWeek, S_DisputeLegal}, t \in PivotAmounts}

InitEdge ==
    /\ df \in TablesOf(EdgeRows)
    /\ df_columns = ALL_COLUMNS
    /\ op = "init"
    /\ args = <<>>
    /\ result = <<>>
    /\ Idle

NextEdge ==
    \/ GetWeeklyInflowSummary
    \/ GetExpectedInflowTotal
    \/ GetDisputeTotal
    \/ GetGrandTotal
    \/ GetDueWiseOutstanding
    \/ GetCustomerWiseOutstanding
    \/ GetBusinessWiseOutstanding
    \/ GetAllocationWiseOutstanding
    \/ GetEntitiesWiseOutstanding
    \/ \E k \in ProjectionKeys : GetProjectionDetail(k)
    \/ \E k \in RemarkKeys : GetDueWiseDetail(k)
    \/ \E k \in CustomerKeys : GetCustomerWiseDetail(k)
    \/ \E k \in OrgKeys : GetBusinessWiseDetail(k)
    \/ \E a \in AllocationKeys, k \in RemarkKeys : GetAllocationRemarkDetail(a, k)

SpecEdge == InitEdge /\ [][NextEdge]_vars

Finite(cents) == <<"float", "finite", cents>>

Infinity(sign) == <<"float", "inf", sign>>

NaN == <<"float", "nan", 0>>

IsFloat(v) == Len(v) = 3 /\ v[1] = "float"

\* -result
Negate(v) == <<"float", v[2], 0 - v[3]>>

DigitVal(c) == IndexOf(c, DigitChars) - 1

RECURSIVE IntOfDigits(_)
IntOfDigits(s) ==
    IF s = <<>> THEN 0
    ELSE 10 * IntOfDigits(SubSeq(s, 1, Len(s) - 1)) + DigitVal(s[Len(s)])

\* str.replace(c, "", regex=False)
RemoveChar(s, c) == SelectSeq(s, LAMBDA x : x # c)

\* the spellings of infinity that pandas' float parser takes, ignoring case
INF_TOKENS ==
    {<<"i", "n", "f">>, <<"+", "i", "n", "f">>, <<"-", "i", "n", "f">>,
     <<"i", "n", "f", "i", "n", "i", "t", "y">>,
     <<"+", "i", "n", "f", "i", "n", "i", "t", "y">>,
     <<"-", "i", "n", "f", "i", "n", "i", "t", "y">>}

\* digits with at most one ".", and a digit
IsDecimal(body) ==
    /\ \A i \in 1..Len(body) : InSeq(body[i], DigitChars) \/ body[i] = "."
    /\ Len(SelectSeq(body, LAMBDA x : x = ".")) <= 1
    /\ \E i \in 1..Len(body) : InSeq(body[i], DigitChars)

\* the hundredths of digits "." digits
CentsOf(body) ==
    LET dot == IF InSeq(".", body) THEN IndexOf(".", body) ELSE Len(body) + 1
        whole == SubSeq(body, 1, dot - 1)
        frac == SubSeq(SubSeq(body, dot + 1, Len(body)) \o <<"0", "0">>, 1, 2)
    IN 100 * IntOfDigits(whole) + IntOfDigits(frac)

\* pd.to_numeric(s, errors="coerce") of one text
to_numeric(s) ==
    LET t == strip(s)
        signed == t # <<>> /\ Head(t) \in {"+", "-"}
        body == IF signed THEN Tail(t) ELSE t
    IN IF lower(s) \in INF_TOKENS
       THEN Infinity(IF Head(s) = "-" THEN 0 - 1 ELSE 1)
       ELSE IF IsDecimal(body)
            THEN Finite(IF signed /\ Head(t) = "-" THEN 0 - CentsOf(body)
                        ELSE CentsOf(body))
            ELSE NaN

\* str(x) of a float
StrOfFloat(v) ==
    IF v[2] = "nan" THEN <<"n", "a", "n">>
    ELSE IF v[2] = "inf"
         THEN IF v[3] < 0 THEN <<"-", "i", "n", "f">> ELSE <<"i", "n", "f">>
    ELSE LET a == IF v[3] < 0 THEN 0 - v[3] ELSE v[3]
             frac == IF a % 100 = 0 THEN <<"0">>
                     ELSE IF a % 10 = 0 THEN StrOfInt((a % 100) \div 10)
                     ELSE <<DigitChars[((a % 100) \div 10) + 1]>> \o StrOfInt(a % 10)
         IN (IF v[3] < 0 THEN <<"-">> ELSE <<>>) \o StrOfInt(a \div 100) \o <<".">> \o frac

\* Series.astype(str) of a cell of raw text, a missing cell or a float
CellAsStr(x) ==
    IF isna(x) THEN <<"n", "a", "n">>
    ELSE IF IsFloat(x) THEN StrOfFloat(x)
    ELSE x

\* mutant: no value is taken as wrapped in parentheses
IsNegativeParen_Never(cleaned) == FALSE

\* cleaned.str.startswith("(") & cleaned.str.endswith(")")
IsNegativeParen(cleaned) ==
    cleaned # <<>> /\ Head(cleaned) = "(" /\ cleaned[Len(cleaned)] = ")"

\* fillna(0.0)
FillZero(v) == IF v[2] = "nan" THEN Finite(0) ELSE v

\* _parse_monetary of one cell of the series
ParseMonetaryCell(x) ==
    LET cleaned == strip(CellAsStr(x))
        is_negative_paren == IsNegativeParen(cleaned)
        unwrapped == RemoveChar(RemoveChar(RemoveChar(cleaned, "("), ")"), ",")
        zeroed == IF unwrapped = <<"-">> \/ unwrapped = <<>> THEN <<"0">> ELSE unwrapped
        parsed == FillZero(to_numeric(zeroed))
    IN IF is_negative_paren THEN Negate(parsed) ELSE parsed

_parse_monetary(series) == [i \in 1..Len(series) |-> ParseMonetaryCell(series[i])]

\* mutant: the fill takes the cell one row above, as it was
ffill_OneStep(col) ==
    [i \in 1..Len(col) |-> IF isna(col[i]) /\ i > 1 THEN col[i - 1] ELSE col[i]]

\* mutant: the fill takes the value of the first row
ffill_First(col) ==
    [i \in 1..Len(col) |-> IF isna(col[i]) THEN col[1] ELSE col[i]]

\* Series.ffill(): a missing cell takes the nearest value above it
RECURSIVE ffill(_)
ffill(col) ==
    IF col = <<>> THEN <<>>
    ELSE LET above == ffill(SubSeq(col, 1, Len(col) - 1))
             x == col[Len(col)]
         IN Append(above, IF isna(x) /\ above # <<>> THEN above[Len(above)] ELSE x)

\* df[col].replace("", pd.NA).ffill()
ForwardFill(col) == ffill([i \in 1..Len(col) |-> IF col[i] = <<>> THEN NA ELSE col[i]])

\* _clean of a table of the columns Customer ID, Customer Name, Remarks and
\* Total in USD, their names already trimmed
_clean(d) ==
    LET ids == ForwardFill([i \in 1..Len(d) |-> d[i].CustomerID])
        names == ForwardFill([i \in 1..Len(d) |-> d[i].CustomerName])
        totals == _parse_monetary([i \in 1..Len(d) |-> d[i].Total])
    IN [i \in 1..Len(d) |->
           [CustomerID |-> ids[i],
            CustomerName |-> names[i],
            Remarks |-> strip(CellAsStr(d[i].Remarks)),
            Total |-> totals[i]]]

ParseMonetary ==
    /\ op' = "_parse_monetary"
    /\ args' = <<>>
    /\ result' = _parse_monetary([i \in 1..Len(df) |-> df[i].Total])
    /\ UNCHANGED <<df, df_columns, appVars>>

Clean ==
    /\ op' = "_clean"
    /\ args' = <<>>
    /\ result' = _clean(df)
    /\ UNCHANGED <<df, df_columns, appVars>>

(***************************************************************************)
(* SpecMoney: _parse_monetary on a series of one cell.                     *)
(***************************************************************************)
RawRow(id, name, total) ==
    [CustomerID |-> id, CustomerName |-> name, Remarks |-> S_OverdueSp, Total |-> total]

S_17033 == <<"1", "7", ",", "0", "3", "3">>

S_9452 == <<"9", ",", "4", "5", "2">>

MoneyBodies ==
    {<<>>, <<"-">>, <<"0">>, <<"5">>, S_17033, S_9452, <<"1", ",", "2", ",", "3">>,
     <<"a", "b", "c">>, <<"i", "n", "f">>, <<"I", "n", "f", "i", "n", "i", "t", "y">>,
     <<"n", "a", "n">>, <<"1", "2", ".", "5">>, <<"-", "5">>, <<"7", ".", "2", "5">>,
     <<"(", "5">>, <<"-", "-">>}

Wrap(x) == <<"(">> \o x \o <<")">>

MoneyTexts ==
    UNION {{x, Wrap(x), <<" ">> \o x \o <<" ">>, Wrap(Wrap(x)),
            Wrap(<<" ">> \o x \o <<" ">>)} : x \in MoneyBodies}

InitMoney ==
    /\ df \in {<<RawRow(S_E1, S_A, x)>> : x \in MoneyTexts \cup {NA, Finite(1250)}}
    /\ df_columns = DOMAIN RawRow(S_E1, S_A, S_17033)
    /\ op = "init"
    /\ args = <<>>
    /\ result = <<>>
    /\ Idle

NextMoney == ParseMonetary

SpecMoney == InitMoney /\ [][NextMoney]_vars

IsText(x) == ~isna(x) /\ ~IsFloat(x)

\* a monetary text: digits, separators, a sign, parentheses and spaces
IsMonetaryText(x) ==
    /\ IsText(x)
    /\ \A i \in 1..Len(x) :
          InSeq(x[i], DigitChars) \/ x[i] \in {",", ".", "-", "(", ")", " "}

\* the text is itself a value wrapped in parentheses
IsWrapped(x) == strip(x) # <<>> /\ Head(strip(x)) = "(" /\ strip(x)[Len(strip(x))] = ")"

ParenthesesNegate(x) == ParseMonetaryCell(Wrap(x)) = Negate(result[1])

CommasAndBlanks(x) ==
    /\ ParseMonetaryCell(RemoveChar(x, ",")) = result[1]
    /\ x \in {<<"-">>, <<>>} => result[1] = Finite(0)
    /\ x = Wrap(S_17033) => result[1] = Finite(0 - 1703300)
    /\ x = S_9452 => result[1] = Finite(945200)

\* C17 as stated: for every monetary text x, _parse_monetary of "(" x ")" is
\* the negation of _parse_monetary of x; commas are ignored; "-" and "" give 0.0.
C17_ParenthesesNegateEveryText ==
    (op = "_parse_monetary" /\ IsMonetaryText(df[1].Total))
        => ParenthesesNegate(df[1].Total) /\ CommasAndBlanks(df[1].Total)

\* C17 amended: the same for every monetary text x that is not itself wrapped
\* in parentheses.
C17_ParenthesesNegateUnwrappedText ==
    (op = "_parse_monetary" /\ IsMonetaryText(df[1].Total))
        => /\ ~IsWrapped(df[1].Total) => ParenthesesNegate(df[1].Total)
           /\ CommasAndBlanks(df[1].Total)

\* C17 witness: "17,033" parsed to 17033.0, which "(17,033)" negates
C17_Witness ==
    /\ op = "_parse_monetary" /\ df[1].Total = S_17033
    /\ result[1] = Finite(1703300)
    /\ ParseMonetaryCell(Wrap(S_17033)) = Finite(0 - 1703300)

\* C18 as stated: _parse_monetary gives a finite number for every raw cell, and
\* 0.0 for a text that is not a number.
C18_ParseMonetaryFinite ==
    op = "_parse_monetary"
        => /\ result[1][2] = "finite"
           /\ IsText(df[1].Total)
                 => \/ \E i \in 1..Len(df[1].Total) : InSeq(df[1].Total[i], DigitChars)
                    \/ result[1] = Finite(0)

(***************************************************************************)
(* SpecClean: _clean on raw tables that vary in Customer ID, Customer Name *)
(* and Total in USD.                                                       *)
(***************************************************************************)
CleanRows ==
    {RawRow(k[1], k[2], t) :
        k \in {<<S_Blank, S_Blank>>, <<S_E1, S_A>>, <<S_E2, S_B>>, <<S_Blank, S_Spaces>>,
                <<NA, NA>>},
        t \in {Wrap(S_17033), <<"1", "2", ".", "5">>}}

InitClean ==
    /\ df \in TablesUpTo(CleanRows, MaxCleanRows)
    /\ df_columns = DOMAIN RawRow(S_E1, S_A, S_17033)
    /\ op = "init"
    /\ args = <<>>
    /\ result = <<>>
    /\ Idle

NextClean == Clean \/ ParseMonetary

SpecClean == InitClean /\ [][NextClean]_vars

IDENTIFIER_COLS == {"CustomerID", "CustomerName"}

\* a raw cell without a value: the empty text or a missing cell
IsBlankCell(x) == x = <<>> \/ isna(x)

C20_ForwardFillIdempotent ==
    op = "_clean"
        => \A c \in IDENTIFIER_COLS, i \in 1..Len(result) :
              _clean(result)[i][c] = result[i][c]

\* C20 witness: names blank, A, blank are cleaned to missing, A, A and
\* cleaned again
C20_Witness ==
    /\ op = "_clean" /\ Len(df) = 3
    /\ df[1].CustomerName = S_Blank /\ df[2].CustomerName = S_A
    /\ df[3].CustomerName = S_Blank
    /\ isna(result[1].CustomerName) /\ result[3].CustomerName = S_A
    /\ Len(_clean(result)) = 3

(***************************************************************************)
(* ARDataModel.load, the dataframe property, and the controller's df       *)
(* property and refresh().  An ARDataModel is the record of its _df and    *)
(* _last_modified.  A call returns the record of the exception it raised   *)
(* ("" when it returned), the exception's message and its __cause__.       *)
(***************************************************************************)
RuntimeError == "RuntimeError"

Returned == [raised |-> "", message |-> "", cause |-> ""]

Raised(e, message, cause) == [raised |-> e, message |-> message, cause |-> cause]

\* download_latest_file() returned the bytes and the info of the latest file
Downloaded(file_content, info) ==
    [raised |-> "", file_content |-> file_content, info |-> info]

\* download_latest_file() raised e
DownloadFailed(e) == [raised |-> e, file_content |-> <<>>, info |-> <<>>]

\* pd.read_csv(io.BytesIO(file_content), dtype=str, keep_default_na=False):
\* the raw table, or the parser's exception when the bytes are no CSV
read_csv(file_content) ==
    IF file_content.csv = <<>> THEN [raised |-> "ParserError", raw |-> <<>>]
    ELSE [raised |-> "", raw |-> file_content.csv[1]]

\* pd.read_excel(io.BytesIO(file_content)): the raw table, or the reader's
\* exception when the bytes are no workbook
read_excel(file_content) ==
    IF file_content.excel = <<>> THEN [raised |-> "ValueError", raw |-> <<>>]
    ELSE [raised |-> "", raw |-> file_content.excel[1]]

\* mutant: a failed download is logged and load returns normally
OnDownloadFailure_Swallow(self, e) ==
    [self |-> self, out |-> Returned, calls |-> <<"download_latest_file">>]

\* load, when download_latest_file() raised e
OnDownloadFailure(self, e) ==
    [self |-> self,
     out |-> Raised(RuntimeError, "AR data download failed", e),
     calls |-> <<"download_latest_file">>]

\* mutant: the spreadsheet parse is attempted whatever the CSV parse did, and
\* its table is preferred
ParseAndClean_ExcelAlways(self, file_content) ==
    LET excel == read_excel(file_content)
        csv == read_csv(file_content)
    IN IF excel.raised = ""
       THEN [self |-> [self EXCEPT !._df = <<_clean(excel.raw)>>], out |-> Returned,
             calls |-> <<"download_latest_file", "read_csv", "read_excel", "_clean">>]
       ELSE IF csv.raised = ""
       THEN [self |-> [self EXCEPT !._df = <<_clean(csv.raw)>>], out |-> Returned,
             calls |-> <<"download_latest_file", "read_csv", "read_excel", "_clean">>]
       ELSE [self |-> self, out |-> Raised(excel.raised, "", ""),
             calls |-> <<"download_latest_file", "read_csv", "read_excel">>]

\* load, lines 68-75: CSV first, the spreadsheet reader when that raised, then
\* _clean; the spreadsheet reader's exception propagates
ParseAndClean(self, file_content) ==
    LET csv == read_csv(file_content)
        excel == read_excel(file_content)
    IN IF csv.raised = ""
       THEN [self |-> [self EXCEPT !._df = <<_clean(csv.raw)>>], out |-> Returned,
             calls |-> <<"download_latest_file", "read_csv", "_clean">>]
       ELSE IF excel.raised = ""
       THEN [self |-> [self EXCEPT !._df = <<_clean(excel.raw)>>], out |-> Returned,
             calls |-> <<"download_latest_file", "read_csv", "read_excel", "_clean">>]
       ELSE [self |-> self, out |-> Raised(excel.raised, "", ""),
             calls |-> <<"download_latest_file", "read_csv", "read_excel">>]

\* ARDataModel.load(), given what download_latest_file() does when called
load(self, fetched) ==
    IF fetched.raised # "" THEN OnDownloadFailure(self, fetched.raised)
    ELSE ParseAndClean([self EXCEPT !._last_modified = <<fetched.info.utc_time>>],
                       fetched.file_content)

\* ARDataModel.dataframe: loads when nothing is loaded, returns a copy
dataframe(self, fetched) ==
    IF self._df = <<>>
    THEN LET loaded == load(self, fetched)
         IN [self |-> loaded.self, out |-> loaded.out,
             calls |-> <<"load">> \o loaded.calls,
             value |-> IF loaded.out.raised = "" THEN loaded.self._df ELSE <<>>]
    ELSE [self |-> self, out |-> Returned, calls |-> <<>>, value |-> self._df]

\* the ARDataModel of the state
Model == [_df |-> model_df, _last_modified |-> model_last_modified]

\* mutant: the property reads the model on every access
df_property_NoCache(_df, self, fetched) ==
    LET read == dataframe(self, fetched)
    IN [_df |-> IF read.out.raised = "" THEN read.value ELSE _df,
        model |-> read.self, out |-> read.out,
        calls |-> <<"dataframe">> \o read.calls,
        value |-> read.value]

\* ProjectionController.df, of a controller whose cache is _df and whose model
\* is self
df_property(_df, self, fetched) ==
    IF _df = <<>>
    THEN LET read == dataframe(self, fetched)
         IN [_df |-> read.value, model |-> read.self, out |-> read.out,
             calls |-> <<"dataframe">> \o read.calls, value |-> read.value]
    ELSE [_df |-> _df, model |-> self, out |-> Returned, calls |-> <<>>,
          value |-> _df]

\* ProjectionController.refresh(): self._df = self._model.load().dataframe
refresh(_df, self, fetched) ==
    LET loaded == load(self, fetched)
        read == dataframe(loaded.self, fetched)
    IN IF loaded.out.raised # ""
       THEN [_df |-> _df, model |-> loaded.self, out |-> loaded.out,
             calls |-> <<"load">> \o loaded.calls]
       ELSE [_df |-> IF read.out.raised = "" THEN read.value ELSE _df,
             model |-> read.self, out |-> read.out,
             calls |-> <<"load">> \o loaded.calls \o <<"dataframe">> \o read.calls]

sessionVars == <<users, store, session_state, cookie, now, issued>>

\* model.load()
Load(fetched) ==
    \E r \in {load(Model, fetched)} :
       /\ op' = "load"
       /\ args' = <<fetched>>
       /\ result' = r.out
       /\ calls' = r.calls
       /\ model_df' = r.self._df
       /\ model_last_modified' = r.self._last_modified
       /\ UNCHANGED <<df, df_columns, controller_df, sessionVars>>

\* controller.df
DfProperty(fetched) ==
    \E r \in {df_property(controller_df, Model, fetched)} :
       /\ op' = "df"
       /\ args' = <<fetched>>
       /\ result' = r.out
       /\ calls' = r.calls
       /\ controller_df' = r._df
       /\ model_df' = r.model._df
       /\ model_last_modified' = r.model._last_modified
       /\ df' = IF r.out.raised = "" THEN r.value[1] ELSE df
       /\ UNCHANGED <<df_columns, sessionVars>>

\* controller.refresh()
Refresh(fetched) ==
    \E r \in {refresh(controller_df, Model, fetched)} :
       /\ op' = "refresh"
       /\ args' = <<fetched>>
       /\ result' = r.out
       /\ calls' = r.calls
       /\ controller_df' = r._df
       /\ model_df' = r.model._df
       /\ model_last_modified' = r.model._last_modified
       /\ UNCHANGED <<df, df_columns, sessionVars>>

(***************************************************************************)
(* SpecLoad: loads, reads and refreshes against a remote source that       *)
(* serves a CSV file, two workbooks and a file that is neither, or fails.  *)
(***************************************************************************)
CsvFile ==
    [csv |-> <<(<<RawRow(S_E1, S_A, S_17033), RawRow(S_Blank, S_Blank, Wrap(S_9452))>>)>>,
     excel |-> <<>>]

ExcelFile ==
    [csv |-> <<>>,
     excel |-> <<(<<RawRow(S_E2, S_B, Finite(1250)), RawRow(NA, NA, Finite(500))>>)>>]

OtherExcelFile ==
    [csv |-> <<>>, excel |-> <<(<<RawRow(S_E1, S_B, Finite(700))>>)>>]

UnreadableFile == [csv |-> <<>>, excel |-> <<>>]

Info(name, utc_time) == [name |-> name, utc_time |-> utc_time]

RemoteFiles ==
    {Downloaded(CsvFile, Info("ar.csv", "t1")),
     Downloaded(ExcelFile, Info("ar.xlsx", "t2")),
     Downloaded(OtherExcelFile, Info("ar2.xlsx", "t3")),
     Downloaded(UnreadableFile, Info("ar.bin", "t4"))}

Fetches == RemoteFiles \cup {DownloadFailed("Exception"), DownloadFailed("HTTPError")}

InitLoad ==
    /\ df = <<>>
    /\ df_columns = DOMAIN RawRow(S_E1, S_A, S_17033)
    /\ op = "init"
    /\ args = <<>>
    /\ result = Returned
    /\ Idle

NextLoad ==
    \/ \E fetched \in Fetches : Load(fetched)
    \/ \E fetched \in Fetches : DfProperty(fetched)
    \/ \E fetched \in Fetches : Refresh(fetched)

SpecLoad == InitLoad /\ [][NextLoad]_vars

(***************************************************************************)
(* Claims checked under SpecLoad.                                          *)
(***************************************************************************)
\* the number of times the collaborator's call c is in the calls cs
RECURSIVE CountCalls(_, _)
CountCalls(cs, c) ==
    IF cs = <<>> THEN 0
    ELSE (IF cs[1] = c THEN 1 ELSE 0) + CountCalls(Tail(cs), c)

\* the last method called download_latest_file()
Downloads == op # "init" /\ InSeq("download_latest_file", calls)

\* C21: when download_latest_file() fails, whatever it raised and whichever
\* method ran the load, the load raises RuntimeError("AR data download
\* failed") with the original exception as its cause, does not return, and
\* the table loaded before and last_modified stay as they were.
C21_DownloadFailureRaisesAndKeepsState ==
    [][(Downloads' /\ args'[1].raised # "")
          => /\ result' = Raised(RuntimeError, "AR data download failed", args'[1].raised)
             /\ model_df' = model_df
             /\ model_last_modified' = model_last_modified
             /\ controller_df' = controller_df]_vars

\* C21 witness: a download failed after a table had been loaded
C21_Witness ==
    /\ op = "load"
    /\ args[1].raised = "HTTPError"
    /\ result.raised = RuntimeError
    /\ model_df # <<>>
    /\ model_last_modified # <<>>

C26_DfCachedUntilRefresh ==
    [][/\ (op' = "df" /\ controller_df # <<>>)
          => /\ calls' = <<>>
             /\ result'.raised = ""
             /\ df' = controller_df[1]
             /\ controller_df' = controller_df
             /\ model_df' = model_df
       /\ (op' = "df" /\ controller_df = <<>>)
          => /\ calls'[1] = "dataframe"
             /\ result'.raised = "" => (controller_df' = model_df' /\ df' = model_df'[1])
             /\ result'.raised # "" => controller_df' = <<>>
       /\ op' = "load" => controller_df' = controller_df
       /\ op' = "refresh"
          => /\ CountCalls(calls', "load") = 1
             /\ result'.raised = ""
                   => /\ controller_df' = load(Model, args'[1]).self._df
                      /\ controller_df' = model_df'
             /\ result'.raised # "" => controller_df' = controller_df]_vars

\* C26 witness: df returned the cached table although the model has since
\* loaded another one
C26_Witness ==
    /\ op = "df"
    /\ calls = <<>>
    /\ controller_df # <<>>
    /\ model_df # <<>>
    /\ controller_df # model_df
    /\ df = controller_df[1]

\* C26 witness of the refresh: the cache holds the table just loaded
C26_RefreshWitness ==
    /\ op = "refresh"
    /\ result.raised = ""
    /\ controller_df = <<_clean(ExcelFile.excel[1])>>

\* C29: last_modified is the timestamp of the file whose cleaned table the
\* model holds.
C29_LastModifiedIsOfHeldTable ==
    model_df # <<>>
       => \E f \in RemoteFiles :
             /\ model_last_modified = <<f.info.utc_time>>
             /\ read_csv(f.file_content).raised = "" \/ read_excel(f.file_content).raised = ""
             /\ model_df = load([_df |-> <<>>, _last_modified |-> <<>>], f).self._df

\* C29, the step: a load that raises changes neither the table nor
\* last_modified.
C29_FailedLoadChangesNothing ==
    [][(Downloads' /\ result'.raised # "")
          => model_df' = model_df /\ model_last_modified' = model_last_modified]_vars

(***************************************************************************)
(* SpecFrame: every get_* method of the controller, in any order, on       *)
(* tables whose Remarks and New Org Name are not trimmed.                  *)
(***************************************************************************)
S_CreditMemoSp == <<"C", "r", "e", "d", "i", "t", " ", "M", "e", "m", "o", " ">>

FrameRows ==
    {[DefaultRow EXCEPT !.Remarks = r, !.NewOrgName = o, !.Total = t] :
        r \in {S_OverdueSp, S_SpINTERNAL, S_CreditMemoSp},
        o \in {S_BU1, S_SpINTERNAL},
        t \in PivotAmounts}

InitFrame ==
    /\ df \in TablesOf(FrameRows)
    /\ df_columns = ALL_COLUMNS
    /\ op = "init"
    /\ args = <<>>
    /\ result = <<>>
    /\ Idle

NextFrame ==
    \/ GetWeeklyInflowSummary
    \/ GetExpectedInflowTotal
    \/ GetDisputeTotal
    \/ GetGrandTotal
    \/ GetCreditMemoTotal
    \/ GetUnappliedTotal
    \/ GetDueWiseOutstanding
    \/ GetCustomerWiseOutstanding
    \/ GetBusinessWiseOutstanding
    \/ GetAllocationWiseOutstanding
    \/ GetEntitiesWiseOutstanding
    \/ GetProjectionDetail(S_Feb1stWeek)
    \/ GetDueWiseDetail(S_overdue)
    \/ GetCustomerWiseDetail(S_A)
    \/ GetBusinessWiseDetail(S_Internal)
    \/ GetAllocationRemarkDetail(S_X, S_overdue)

SpecFrame == InitFrame /\ [][NextFrame]_vars

\* what the call o(a) may return on the table d of columns cs
Outcomes(o, a, d, cs) ==
    CASE o = "get_weekly_inflow_summary" -> get_weekly_inflow_summary(d)
      [] o = "get_expected_inflow_total" -> {get_expected_inflow_total(d)}
      [] o = "get_dispute_total" -> {get_dispute_total(d)}
      [] o = "get_grand_total" -> {get_grand_total(d)}
      [] o = "get_credit_memo_total" -> {get_credit_memo_total(d)}
      [] o = "get_unapplied_total" -> {get_unapplied_total(d)}
      [] o = "get_due_wise_outstanding" -> get_due_wise_outstanding(d)
      [] o = "get_customer_wise_outstanding" -> get_customer_wise_outstanding(d)
      [] o = "get_business_wise_outstanding" -> get_business_wise_outstanding(d)
      [] o = "get_allocation_wise_outstanding" -> get_allocation_wise_outstanding(d)
      [] o = "get_entities_wise_outstanding" -> get_entities_wise_outstanding(d)
      [] o = "get_projection_detail" -> get_projection_detail(d, cs, a[1])
      [] o = "get_due_wise_detail" -> get_due_wise_detail(d, cs, a[1])
      [] o = "get_customer_wise_detail" -> get_customer_wise_detail(d, cs, a[1])
      [] o = "get_business_wise_detail" -> get_business_wise_detail(d, cs, a[1])
      [] o = "get_allocation_remark_detail"
            -> get_allocation_remark_detail(d, cs, a[1], a[2])

\* C23: a call of any get_* method leaves the controller's table, row by row
\* and cell by cell (the untrimmed Remarks and New Org Name included), and
\* its columns as they were, and the same call made again on the table it
\* leaves behind has the same results (up to the order of tied rows, which
\* the sort does not fix).
C23_GetMethodsLeaveTable ==
    [][op' # "init"
          => /\ df' = df
             /\ df_columns' = df_columns
             /\ result' \in Outcomes(op', args', df', df_columns')
             /\ Outcomes(op', args', df', df_columns') = Outcomes(op', args', df, df_columns)]_vars

\* C23 witness: get_business_wise_outstanding was called on a table with an
\* untrimmed New Org Name and untrimmed Remarks, and the table still has them
C23_Witness ==
    /\ op = "get_business_wise_outstanding"
    /\ Len(df) = 2
    /\ df[1].NewOrgName = S_SpINTERNAL
    /\ df[2].Remarks = S_OverdueSp
    /\ df[2].NewOrgName = S_BU1
    /\ Len(result.rows) = 1

(***************************************************************************)
(* AccessModel: the store of authorized users.  users maps the stored key  *)
(* (an email, lowered and trimmed by the method that wrote it) to the      *)
(* record's role and active flag; the other fields of a record are notes   *)
(* (who, when) that no decision reads.                                     *)
(***************************************************************************)
ROLE_ADMIN == "admin"

ROLE_VIEWER == "viewer"

Roles == {ROLE_ADMIN, ROLE_VIEWER}

S_RootEmail == <<"R", "o", "o", "t", "@", "x">>

S_rootEmail == <<"r", "o", "o", "t", "@", "x">>

S_UserEmail == <<"U", "@", "x">>

S_userEmail == <<"u", "@", "x">>

S_UserEmailPadded == <<" ", "U", "@", "x", " ">>

\* auth_config.BOOTSTRAP_ADMINS
BOOTSTRAP_ADMINS == <<S_RootEmail, S_Blank>>

\* self._data["users"][email] = record
Put(u, email, record) ==
    [k \in DOMAIN u \cup {email} |-> IF k = email THEN record ELSE u[k]]

\* self._data["users"].get(email): the record, if there is one
Get(u, email) == IF email \in DOMAIN u THEN <<u[email]>> ELSE <<>>

get_user(u, email) == Get(u, lower(email))

is_authorized(u, email) ==
    LET user == get_user(u, lower(email))
    IN user # <<>> /\ user[1].active

is_admin(u, email) ==
    LET user == get_user(u, lower(email))
    IN user # <<>> /\ user[1].active /\ user[1].role = ROLE_ADMIN

\* bootstrap_admins, for one configured email
BootstrapOne(u, configured) ==
    LET email == strip(lower(configured))
        existing == Get(u, email)
    IN IF configured = <<>> THEN u
       ELSE IF existing = <<>> THEN Put(u, email, [role |-> ROLE_ADMIN, active |-> TRUE])
       ELSE IF ~existing[1].active
            THEN Put(u, email, [role |-> ROLE_ADMIN, active |-> TRUE])
       ELSE u

RECURSIVE BootstrapAll(_, _)
BootstrapAll(u, configured) ==
    IF configured = <<>> THEN u
    ELSE BootstrapAll(BootstrapOne(u, Head(configured)), Tail(configured))

bootstrap_admins(u) == BootstrapAll(u, BOOTSTRAP_ADMINS)

\* the store after the call, and what the call returned
Stored(u, returned) == [users |-> u, returned |-> returned]

grant_access(u, email, role) ==
    Stored(Put(u, strip(lower(email)), [role |-> role, active |-> TRUE]), TRUE)

revoke_access(u, email) ==
    LET key == strip(lower(email))
        user == Get(u, key)
    IN IF user = <<>> THEN Stored(u, FALSE)
       ELSE Stored(Put(u, key, [user[1] EXCEPT !.active = FALSE]), TRUE)

update_role(u, email, new_role) ==
    LET key == strip(lower(email))
        user == Get(u, key)
    IN IF user = <<>> THEN Stored(u, FALSE)
       ELSE Stored(Put(u, key, [user[1] EXCEPT !.role = new_role]), TRUE)

reactivate(u, email) ==
    LET key == strip(lower(email))
        user == Get(u, key)
    IN IF user = <<>> THEN Stored(u, FALSE)
       ELSE Stored(Put(u, key, [user[1] EXCEPT !.active = TRUE]), TRUE)

loadVars == <<model_df, model_last_modified, controller_df, calls>>

browserVars == <<store, session_state, cookie, now, issued>>

BootstrapAdmins ==
    /\ op' = "bootstrap_admins"
    /\ args' = <<>>
    /\ result' = <<>>
    /\ users' = bootstrap_admins(users)
    /\ UNCHANGED <<df, df_columns, loadVars, browserVars>>

GrantAccess(email, role) ==
    LET r == grant_access(users, email, role)
    IN /\ op' = "grant_access"
       /\ args' = <<email, role>>
       /\ result' = <<r.returned>>
       /\ users' = r.users
       /\ UNCHANGED <<df, df_columns, loadVars, browserVars>>

RevokeAccess(email) ==
    LET r == revoke_access(users, email)
    IN /\ op' = "revoke_access"
       /\ args' = <<email>>
       /\ result' = <<r.returned>>
       /\ users' = r.users
       /\ UNCHANGED <<df, df_columns, loadVars, browserVars>>

UpdateRole(email, new_role) ==
    LET r == update_role(users, email, new_role)
    IN /\ op' = "update_role"
       /\ args' = <<email, new_role>>
       /\ result' = <<r.returned>>
       /\ users' = r.users
       /\ UNCHANGED <<df, df_columns, loadVars, browserVars>>

Reactivate(email) ==
    LET r == reactivate(users, email)
    IN /\ op' = "reactivate"
       /\ args' = <<email>>
       /\ result' = <<r.returned>>
       /\ users' = r.users
       /\ UNCHANGED <<df, df_columns, loadVars, browserVars>>

(***************************************************************************)
(* SpecAccess: the AccessModel's methods in any order, on emails given in  *)
(* several spellings, from an empty store.                                 *)
(***************************************************************************)
Emails == {S_RootEmail, S_rootEmail, S_UserEmail, S_userEmail, S_UserEmailPadded}

InitAccess ==
    /\ df = <<>>
    /\ df_columns = {}
    /\ op = "init"
    /\ args = <<>>
    /\ result = <<>>
    /\ Idle

NextAccess ==
    \/ BootstrapAdmins
    \/ \E email \in Emails, role \in Roles : GrantAccess(email, role)
    \/ \E email \in Emails : RevokeAccess(email)
    \/ \E email \in Emails, role \in Roles : UpdateRole(email, role)
    \/ \E email \in Emails : Reactivate(email)

SpecAccess == InitAccess /\ [][NextAccess]_vars

(***************************************************************************)
(* Claims checked under SpecAccess.                                        *)
(***************************************************************************)
\* the key every writing method files the email under
KeyOf(email) == strip(lower(email))

\* a record for the email exists and is active
HasActiveRecord(u, email) ==
    KeyOf(email) \in DOMAIN u /\ u[KeyOf(email)].active

\* C24: after bootstrap_admins() returns, is_admin(email) is true of every
\* non-empty email of BOOTSTRAP_ADMINS, whatever the store was before.
C24_BootstrapAdminsAreAdmins ==
    op = "bootstrap_admins"
       => \A i \in 1..Len(BOOTSTRAP_ADMINS) :
             BOOTSTRAP_ADMINS[i] # <<>> => is_admin(users, BOOTSTRAP_ADMINS[i])

\* the lifecycle of C25 for the email e
Lifecycle(e) ==
    /\ is_authorized(users', e) <=> HasActiveRecord(users', e)
    /\ (op' = "grant_access" /\ args'[1] = e) => is_authorized(users', e)
    /\ (op' = "reactivate" /\ args'[1] = e /\ result' = <<TRUE>>) => is_authorized(users', e)
    /\ (op' = "revoke_access" /\ args'[1] = e) => ~is_authorized(users', e)
    /\ op' = "update_role" => (is_authorized(users', e) <=> is_authorized(users, e))
    /\ (op' \in {"revoke_access", "reactivate"} /\ KeyOf(e) \in DOMAIN users)
          => users'[KeyOf(e)].role = users[KeyOf(e)].role
    /\ (op = "revoke_access" /\ op' = "reactivate" /\ args' = args /\ args[1] = e /\ result' = <<TRUE>>)
          => (is_admin(users', e) <=> users[KeyOf(e)].role = ROLE_ADMIN)

\* C25: is_authorized(e) is true exactly when a record for e exists and is
\* active; grant_access(e) and a reactivate(e) that finds the record make it
\* true, revoke_access(e) makes it false, update_role never changes it, and
\* neither revoke_access nor reactivate touches the role, so that a revoked
\* admin who is reactivated is an admin again.
C25_AuthorizedIffActiveRecord ==
    [][\A e \in Emails : Lifecycle(e)]_vars

\* C25 for the emails that carry no surrounding whitespace
C25_TrimmedEmails ==
    [][\A e \in Emails : strip(e) = e => Lifecycle(e)]_vars

(***************************************************************************)
(* Sessions: the persistent session store, one browser's Streamlit         *)
(* session state and ar_sid cookie, SessionManager.login and main().  A    *)
(* session id is the number of the login that issued it (the code draws a  *)
(* fresh random token); time is counted in days.                           *)
(***************************************************************************)
SESSION_TTL_DAYS == 7

\* store.pop(session_id, None)
Pop(st, session_id) == [k \in DOMAIN st \ {session_id} |-> st[k]]

_write_session(st, session_id, user_info, role, t) ==
    LET cutoff == t - SESSION_TTL_DAYS
        kept == {k \in DOMAIN st : st[k].created_at > cutoff}
    IN [k \in kept \cup {session_id} |->
           IF k = session_id
           THEN [user_info |-> user_info, role |-> role, created_at |-> t]
           ELSE st[k]]

\* the store after the read, and the record returned (none: None)
_read_session(st, session_id, t) ==
    IF session_id \notin DOMAIN st THEN [store |-> st, record |-> <<>>]
    ELSE IF t - st[session_id].created_at > SESSION_TTL_DAYS
         THEN [store |-> Pop(st, session_id), record |-> <<>>]
    ELSE [store |-> st, record |-> <<st[session_id]>>]

\* mutant: the record stays in the store
_delete_session_Keep(st, session_id) == st

_delete_session(st, session_id) == Pop(st, session_id)

persist_login(st, n, t, user_info, role) ==
    LET session_id == n + 1
    IN [session_state |->
            [user |-> <<user_info>>, role |-> <<role>>, session_id |-> <<session_id>>],
        store |-> _write_session(st, session_id, user_info, role, t),
        issued |-> n + 1]

\* try_restore_from_cookie: read is the session id looked up in the store
\* (none when the cookie is not read or not sent)
try_restore_from_cookie(ss, ck, st, t) ==
    IF ss.user # <<>>
    THEN [session_state |-> ss, store |-> st, returned |-> TRUE, read |-> <<>>]
    ELSE IF ck = <<>>
    THEN [session_state |-> ss, store |-> st, returned |-> FALSE, read |-> <<>>]
    ELSE LET r == _read_session(st, ck[1], t)
         IN IF r.record = <<>>
            THEN [session_state |-> ss, store |-> r.store, returned |-> FALSE, read |-> ck]
            ELSE [session_state |->
                      [user |-> <<r.record[1].user_info>>,
                       role |-> <<r.record[1].role>>,
                       session_id |-> ck],
                  store |-> r.store, returned |-> TRUE, read |-> ck]

\* clear_persistent_session: cleared is the session id it deleted (none: None)
clear_persistent_session(ss, st) ==
    [session_state |-> NoSession,
     store |-> IF ss.session_id # <<>> THEN _delete_session(st, ss.session_id[1]) ELSE st,
     cleared |-> ss.session_id]

\* mutant: login does not ask the access store
IsAuthorizedAtLogin_Always(u, email) == TRUE

\* if not self._access.is_authorized(email): return False
IsAuthorizedAtLogin(u, email) == is_authorized(u, email)

\* SessionManager.login(user_info)
login(u, ss, st, n, t, user_info) ==
    LET email == strip(lower(user_info.email))
        booted == bootstrap_admins(u)
        user_record == get_user(booted, email)
        role == IF user_record # <<>> THEN user_record[1].role ELSE ROLE_VIEWER
        p == persist_login(st, n, t, user_info, role)
    IN IF ~IsAuthorizedAtLogin(booted, email)
       THEN [users |-> booted, session_state |-> ss, store |-> st, issued |-> n,
             returned |-> FALSE]
       ELSE [users |-> booted, session_state |-> p.session_state, store |-> p.store,
             issued |-> p.issued, returned |-> TRUE]

\* main(): one run of the page script.  callback is the user_info of an OAuth
\* redirect, if the request carries one.
main(u, ss, ck, st, n, t, callback) ==
    LET restored == try_restore_from_cookie(ss, ck, st, t)
        booted == bootstrap_admins(u)
        l == login(booted, restored.session_state, restored.store, n, t, callback[1])
    IN IF restored.session_state.user = <<>>
       THEN IF callback = <<>>
            THEN [users |-> booted, session_state |-> restored.session_state,
                  store |-> restored.store, issued |-> n, cookie |-> ck]
            ELSE [users |-> l.users, session_state |-> l.session_state,
                  store |-> l.store, issued |-> l.issued, cookie |-> ck]
       ELSE [users |-> booted, session_state |-> restored.session_state,
             store |-> restored.store, issued |-> n,
             cookie |-> restored.session_state.session_id]

MaxSessions == 2

MaxNow == 8

\* the session id a call worked on, as the call's args
SessionIdArg(session_id) ==
    IF session_id = <<>> THEN <<>> ELSE <<[session_id |-> session_id[1]]>>

Login(user_info) ==
    LET r == login(users, session_state, store, issued, now, user_info)
    IN /\ issued < MaxSessions
       /\ op' = "login"
       /\ args' = <<user_info>>
       /\ result' = <<r.returned>>
       /\ users' = r.users
       /\ session_state' = r.session_state
       /\ store' = r.store
       /\ issued' = r.issued
       /\ UNCHANGED <<df, df_columns, loadVars, cookie, now>>

TryRestoreFromCookie ==
    LET r == try_restore_from_cookie(session_state, cookie, store, now)
    IN /\ op' = "try_restore_from_cookie"
       /\ args' = SessionIdArg(r.read)
       /\ result' = <<r.returned>>
       /\ session_state' = r.session_state
       /\ store' = r.store
       /\ UNCHANGED <<df, df_columns, loadVars, users, cookie, now, issued>>

\* write_cookie_after_login: the injected script sets the cookie
WriteCookieAfterLogin ==
    /\ op' = "write_cookie_after_login"
    /\ args' = <<>>
    /\ result' = <<>>
    /\ cookie' = IF session_state.session_id # <<>> THEN session_state.session_id ELSE cookie
    /\ UNCHANGED <<df, df_columns, loadVars, users, store, session_state, now, issued>>

\* SessionManager.logout(): clear_persistent_session.  The script that
\* expires the cookie is injected into a page that is rerun at once; the
\* browser may or may not have run it.
Logout ==
    LET r == clear_persistent_session(session_state, store)
    IN /\ op' = "clear_persistent_session"
       /\ args' = SessionIdArg(r.cleared)
       /\ result' = <<>>
       /\ session_state' = r.session_state
       /\ store' = r.store
       /\ cookie' \in {<<>>, cookie}
       /\ UNCHANGED <<df, df_columns, loadVars, users, now, issued>>

\* the browser opens the app in a new Streamlit session: the session state
\* starts empty, the cookie is still the browser's
NewStreamlitSession ==
    /\ op' = "new session"
    /\ args' = <<>>
    /\ result' = <<>>
    /\ session_state' = NoSession
    /\ UNCHANGED <<df, df_columns, loadVars, users, store, cookie, now, issued>>

\* days pass
Tick(days) ==
    /\ now + days <= MaxNow
    /\ op' = "time passes"
    /\ args' = <<>>
    /\ result' = <<>>
    /\ now' = now + days
    /\ UNCHANGED <<df, df_columns, loadVars, users, store, session_state, cookie, issued>>

Main(callback) ==
    LET r == main(users, session_state, cookie, store, issued, now, callback)
    IN /\ callback # <<>> => issued < MaxSessions
       /\ op' = "main"
       /\ args' = callback
       /\ result' = <<>>
       /\ users' = r.users
       /\ session_state' = r.session_state
       /\ store' = r.store
       /\ issued' = r.issued
       /\ cookie' = r.cookie
       /\ UNCHANGED <<df, df_columns, loadVars, now>>

UserInfo(email) == [email |-> email]

UserInfos == {UserInfo(S_RootEmail), UserInfo(S_UserEmailPadded)}

(***************************************************************************)
(* SpecLogin: logins between changes of the access store.                  *)
(***************************************************************************)
NextLogin ==
    \/ \E user_info \in UserInfos : Login(user_info)
    \/ \E email \in {S_rootEmail, S_UserEmail}, role \in Roles : GrantAccess(email, role)
    \/ \E email \in {S_RootEmail, S_userEmail} : RevokeAccess(email)
    \/ \E email \in {S_rootEmail, S_userEmail}, role \in Roles : UpdateRole(email, role)
    \/ \E email \in {S_rootEmail, S_UserEmailPadded} : Reactivate(email)

SpecLogin == InitAccess /\ [][NextLogin]_vars

(***************************************************************************)
(* SpecSession: one browser logging in, reloading, logging out and coming  *)
(* back, while days pass.  The access store is the one bootstrap_admins    *)
(* leaves at start-up and does not change.                                 *)
(***************************************************************************)
InitSession ==
    /\ df = <<>>
    /\ df_columns = {}
    /\ op = "init"
    /\ args = <<>>
    /\ result = <<>>
    /\ model_df = <<>>
    /\ model_last_modified = <<>>
    /\ controller_df = <<>>
    /\ calls = <<>>
    /\ users = bootstrap_admins(<<>>)
    /\ store = <<>>
    /\ session_state = NoSession
    /\ cookie = <<>>
    /\ now = 0
    /\ issued = 0

NextSession ==
    \/ Login(UserInfo(S_RootEmail))
    \/ TryRestoreFromCookie
    \/ WriteCookieAfterLogin
    \/ Logout
    \/ NewStreamlitSession
    \/ \E days \in {1, SESSION_TTL_DAYS} : Tick(days)

SpecSession == InitSession /\ [][NextSession]_vars

(***************************************************************************)
(* SpecApp: page loads of one browser, with and without an OAuth redirect, *)
(* between changes of the access store.                                    *)
(***************************************************************************)
NextApp ==
    \/ \E callback \in {<<>>} \cup {<<user_info>> : user_info \in UserInfos} : Main(callback)
    \/ Logout
    \/ NewStreamlitSession
    \/ \E role \in Roles : GrantAccess(S_UserEmail, role)
    \/ \E email \in {S_rootEmail, S_userEmail} : RevokeAccess(email)
    \/ \E email \in {S_rootEmail, S_userEmail}, role \in Roles : UpdateRole(email, role)
    \/ Reactivate(S_userEmail)

SpecApp == InitSession /\ [][NextApp]_vars

(***************************************************************************)
(* Claims checked under SpecLogin, SpecSession and SpecApp.                *)
(***************************************************************************)
\* the email's record exists and is inactive: revoke_access was applied to it
\* and no grant_access or reactivate since
IsRevoked(u, email) == KeyOf(email) \in DOMAIN u /\ ~u[KeyOf(email)].active

\* the email is one of BOOTSTRAP_ADMINS
IsBootstrapAdmin(email) ==
    \E i \in 1..Len(BOOTSTRAP_ADMINS) :
        BOOTSTRAP_ADMINS[i] # <<>> /\ KeyOf(BOOTSTRAP_ADMINS[i]) = KeyOf(email)

\* the login of this step returned False and created no session
LoginRefused ==
    /\ result' = <<FALSE>>
    /\ store' = store
    /\ session_state' = session_state
    /\ issued' = issued

\* the login of this step returned True for an email the access store
\* authorizes, and persisted a session with the role the store holds
LoginAccepted ==
    LET email == args'[1].email
        session_id == issued + 1
    IN /\ result' = <<TRUE>>
       /\ is_authorized(users', KeyOf(email))
       /\ session_state' = [user |-> <<args'[1]>>,
                            role |-> <<users'[KeyOf(email)].role>>,
                            session_id |-> <<session_id>>]
       /\ session_id \in DOMAIN store'
       /\ store'[session_id].user_info = args'[1]
       /\ store'[session_id].role = users'[KeyOf(email)].role

Sids == 1..MaxSessions

\* try_restore_from_cookie has just restored the session id s from the store
Restored(s) ==
    op = "try_restore_from_cookie" /\ result = <<TRUE>> /\ args = <<[session_id |-> s]>>

\* C28: a session id is restored only from a record that is in the store
\* and not older than SESSION_TTL_DAYS; a lookup of an expired record removes
\* it and restores nothing; and once clear_persistent_session has cleared an
\* id, that id is never restored again, whatever cookie the browser sends.
C28_RestoreOnlyLiveSessions ==
    /\ [](\A s \in Sids :
             Restored(s)
                => /\ s \in DOMAIN store
                   /\ now - store[s].created_at <= SESSION_TTL_DAYS
                   /\ session_state = [user |-> <<store[s].user_info>>,
                                       role |-> <<store[s].role>>,
                                       session_id |-> <<s>>])
    /\ [][\A s \in Sids :
             (/\ op' = "try_restore_from_cookie"
              /\ args' = <<[session_id |-> s]>>
              /\ s \in DOMAIN store
              /\ now - store[s].created_at > SESSION_TTL_DAYS)
                => /\ s \notin DOMAIN store'
                   /\ result' = <<FALSE>>
                   /\ session_state' = session_state
                   /\ session_state'.user = <<>>]_vars
    /\ \A s \in Sids :
          []((op = "clear_persistent_session" /\ args = <<[session_id |-> s]>>)
                => [](~Restored(s)))

\* C28 witness: the browser still sent the cookie of a session that was
\* logged out, and nothing was restored
C28_Witness ==
    /\ op = "try_restore_from_cookie"
    /\ result = <<FALSE>>
    /\ args = <<[session_id |-> 1]>>
    /\ cookie = <<1>>
    /\ 1 \notin DOMAIN store
    /\ now = 0
    /\ session_state = NoSession

\* C28 witness of the expiry: the lookup of an expired record removed it
C28_ExpiredWitness ==
    /\ op = "try_restore_from_cookie"
    /\ result = <<FALSE>>
    /\ args = <<[session_id |-> 1]>>
    /\ now = SESSION_TTL_DAYS + 1
    /\ issued = 1
    /\ store = <<>>

\* C30: after a page load, an authenticated session belongs to an email the
\* access store authorizes now, and carries the role the store holds now.
C30_AuthenticatedIsAuthorized ==
    (op = "main" /\ session_state.user # <<>>)
       => LET email == session_state.user[1].email
          IN /\ is_authorized(users, KeyOf(email))
             /\ session_state.role = <<users[KeyOf(email)].role>>

====
